---- MODULE Spec2Model ----
(***************************************************************************)
(* A model of kana-cli's container lifecycle layer: the docker adapter     *)
(* (internal/docker), the site controller (internal/site) and the          *)
(* readiness poll (VerifySite).                                            *)
(*                                                                         *)
(* The docker daemon is the environment.  An operation that never waits    *)
(* is one action.  An operation that waits for the daemon (ContainerWait,  *)
(* the stream of ContainerExec) is one action up to the wait and one from  *)
(* the answer on; in between, the call under way is in the variable call   *)
(* and the daemon's containers may end.  The daemon calls of an action are *)
(* threaded through a                                                      *)
(* "world" record w = [cs, nets, imgs, nid, log, faults, out, execs]:      *)
(*   cs     the daemon's containers                                        *)
(*   nets   the daemon's networks                                          *)
(*   imgs   the images present locally                                     *)
(*   nid    the next fresh identifier the daemon hands out                 *)
(*   log    the fallible steps the operation has made so far, in order     *)
(*   faults the positions in log at which the step fails (daemon or        *)
(*          filesystem error), chosen by the environment                   *)
(*   out    the text a one-shot container writes to its log                *)
(*   execs  the exec sessions the operation has created, in order          *)
(* Strings that the code formats or trims are sequences of tokens, so      *)
(* that fmt.Sprintf and strings.Trim are computed, not assumed.            *)
(***************************************************************************)
EXTENDS Integers, Sequences, FiniteSets, TLC

VARIABLES daemon, last, hist, vs, dk, ident, ex, inv, call

vars == <<daemon, last, hist, vs, dk, ident, ex, inv, call>>

(* ------------------------------ bounds -------------------------------- *)

\* identifiers the daemon may hand out in one behaviour
MaxIds == 4

\* the same for the behaviours of the site's operations
MaxSiteIds == 6

\* failing steps the environment may inject into one operation
MaxFaults == 1

\* frames an exec stream may deliver
MaxFrames == 3

\* identifiers handed out before the last operation of a behaviour that
\* starts on a host without network and images
MaxOrderIds == 3

(* ------------------------------ names --------------------------------- *)

Sites == {"a", "b"}

ExitCodes == {0, 1}

NoId == 0

Nil == "nil"

\* strings.Trim(name, "/"): drop every leading and trailing "/" token
RECURSIVE TrimLeft(_)
TrimLeft(s) ==
    IF s # <<>> /\ Head(s) = "/" THEN TrimLeft(Tail(s)) ELSE s

RECURSIVE TrimRight(_)
TrimRight(s) ==
    IF s # <<>> /\ s[Len(s)] = "/" THEN TrimRight(SubSeq(s, 1, Len(s) - 1)) ELSE s

Trim(s) == TrimRight(TrimLeft(s))

\* the daemon reports a container's name with a leading "/"
DaemonName(name) == <<"/">> \o name

DatabaseName(s) == <<"kana_", s, "_database">>

WordPressName(s) == <<"kana_", s, "_wordpress">>

CliName(s) == <<"kana_", s, "_wordpress_cli">>

GetSiteContainers(s) == <<DatabaseName(s), WordPressName(s)>>

TraefikName == <<"kana_traefik">>

NetworkName == <<"kana">>

SiteLabel(s) == <<<<"kana.site">>, <<s>>>>

(* --------------------------- configuration ---------------------------- *)

\* the site's configuration as the configuration collaborator supplies it
SiteConfig(s) ==
    IF s = "a"
    THEN [php |-> "8.1", local |-> FALSE, type |-> "site",
          plugins |-> <<"p1", "p2">>, xdebug |-> TRUE]
    ELSE [php |-> "7.4", local |-> TRUE, type |-> "plugin",
          plugins |-> <<"p1">>, xdebug |-> FALSE]

DatabaseImage == <<"mariadb">>

WordPressImage(s) == <<"wordpress:php", SiteConfig(s).php>>

\* the application-wide options, before a site's own options override them
DynamicConfig ==
    [php |-> "8.1",
     admin |-> [username |-> "admin", password |-> "password",
                email |-> "admin@mykanasite.localhost"]]

\* the wp-cli image takes its PHP version from the application-wide options
CliImage(s) == <<"wordpress:cli-php", DynamicConfig.php>>

TraefikImage == <<"traefik">>

WordPressEnv(s) ==
    << <<"WORDPRESS_DB_HOST=kana_", s, "_database">>,
       <<"WORDPRESS_DB_USER=wordpress">>,
       <<"WORDPRESS_DB_PASSWORD=wordpress">>,
       <<"WORDPRESS_DB_NAME=wordpress">> >>

DatabaseConfig(s) ==
    [Name |-> DatabaseName(s),
     Image |-> DatabaseImage,
     NetworkName |-> NetworkName,
     HostName |-> DatabaseName(s),
     Command |-> <<>>,
     Env |-> << <<"MARIADB_ROOT_PASSWORD=password">>,
                <<"MARIADB_DATABASE=wordpress">>,
                <<"MARIADB_USER=wordpress">>,
                <<"MARIADB_PASSWORD=wordpress">> >>,
     Labels |-> {SiteLabel(s)}]

\* the domain suffix the configuration collaborator supplies
AppDomain == "kana.localhost"

\* fmt.Sprintf("Host(%s.%s)", SiteName, AppDomain), the rule in back quotes
HostRule(s) == <<"Host(", s, ".", AppDomain, ")">>

WordPressConfig(s) ==
    [Name |-> WordPressName(s),
     Image |-> WordPressImage(s),
     NetworkName |-> NetworkName,
     HostName |-> WordPressName(s),
     Command |-> <<>>,
     Env |-> WordPressEnv(s),
     Labels |-> {<<<<"traefik.enable">>, <<"true">>>>,
                 <<<<"traefik.http.routers.wordpress-", s, "-http.entrypoints">>, <<"web">>>>,
                 <<<<"traefik.http.routers.wordpress-", s, "-http.rule">>, HostRule(s)>>,
                 <<<<"traefik.http.routers.wordpress-", s, ".entrypoints">>, <<"websecure">>>>,
                 <<<<"traefik.http.routers.wordpress-", s, ".rule">>, HostRule(s)>>,
                 <<<<"traefik.http.routers.wordpress-", s, ".tls">>, <<"true">>>>,
                 SiteLabel(s)}]

CliConfig(s, command) ==
    [Name |-> CliName(s),
     Image |-> CliImage(s),
     NetworkName |-> NetworkName,
     HostName |-> CliName(s),
     Command |-> <<"wp", "--path=/var/www/html">> \o command,
     Env |-> WordPressEnv(s),
     Labels |-> {SiteLabel(s)}]

TraefikConfig ==
    [Name |-> TraefikName,
     Image |-> TraefikImage,
     NetworkName |-> NetworkName,
     HostName |-> TraefikName,
     Command |-> <<>>,
     Env |-> <<>>,
     Labels |-> {}]

\* fmt.Sprintf("%s.%s", SiteName, AppDomain)
SiteDomain(name, appDomain) == name \o <<".", appDomain>>

\* fmt.Sprintf("https://%s/", siteDomain)
SecureURL(domain) == <<"https://">> \o domain \o <<"/">>

\* fmt.Sprintf("http://%s/", siteDomain)
InsecureURL(domain) == <<"http://">> \o domain \o <<"/">>

\* the URLs NewSite derives for the site named s (lines 408-410)
SiteURLs(s) ==
    [secureURL |-> SecureURL(SiteDomain(<<s>>, AppDomain)),
     url |-> InsecureURL(SiteDomain(<<s>>, AppDomain))]

\* GetURL
GetURL(s, insecure) == IF insecure THEN s.url ELSE s.secureURL

\* evaluate x once and hand its value to F
Bind(x, F(_)) == CHOOSE y \in {F(v) : v \in {x}} : TRUE

(* ------------------------- the daemon's calls ------------------------- *)

\* the text a one-shot container writes unless the command says otherwise
LogText == "output"

World(d, faults) ==
    [cs |-> d.cs, nets |-> d.nets, imgs |-> d.imgs, nid |-> d.nid,
     log |-> <<>>, faults |-> faults, out |-> LogText, execs |-> <<>>]

DaemonOf(w) == [cs |-> w.cs, nets |-> w.nets, imgs |-> w.imgs, nid |-> w.nid]

\* the next fallible step fails
Fails(w) == (Len(w.log) + 1) \in w.faults

Logged(w, step, ok) == [w EXCEPT !.log = Append(@, [c |-> step, ok |-> ok])]

\* a fallible step that is not a daemon call (os.Getwd, os.MkdirAll, ...)
Step(w, step) ==
    IF Fails(w)
    THEN [w |-> Logged(w, step, FALSE), err |-> "os"]
    ELSE [w |-> Logged(w, step, TRUE), err |-> Nil]

\* a list filter: <<>> none, <<k>> label key present, <<k, v>> label k = v
Matches(c, f) ==
    \/ Len(f) = 0
    \/ Len(f) = 1 /\ \E p \in c.labels : p[1] = f[1]
    \/ Len(f) = 2 /\ f \in c.labels

ClientContainerList(w, all, f) ==
    IF Fails(w)
    THEN [w |-> Logged(w, "ContainerList", FALSE), err |-> "daemon", out |-> {}]
    ELSE [w |-> Logged(w, "ContainerList", TRUE), err |-> Nil,
          out |-> {c \in w.cs : (all \/ c.status = "running") /\ Matches(c, f)}]

HasId(w, id) == \E c \in w.cs : c.id = id

SetStatus(w, id, status) ==
    [w EXCEPT !.cs = {IF c.id = id THEN [c EXCEPT !.status = status] ELSE c : c \in @}]

\* the daemon refuses a name already in use and an image it does not hold
ClientContainerCreate(w, config) ==
    IF Fails(w)
    THEN [w |-> Logged(w, "ContainerCreate", FALSE), err |-> "daemon", id |-> NoId]
    ELSE IF \E c \in w.cs : c.name = DaemonName(config.Name)
    THEN [w |-> Logged(w, "ContainerCreate", FALSE), err |-> "conflict", id |-> NoId]
    ELSE IF config.Image \notin w.imgs
    THEN [w |-> Logged(w, "ContainerCreate", FALSE), err |-> "no such image", id |-> NoId]
    ELSE [w |-> [Logged(w, "ContainerCreate", TRUE) EXCEPT
                    !.cs = @ \cup {[id |-> w.nid, name |-> DaemonName(config.Name),
                                    status |-> "created", labels |-> config.Labels,
                                    net |-> config.NetworkName]},
                    !.nid = @ + 1],
          err |-> Nil, id |-> w.nid]

ClientContainerStart(w, id) ==
    IF Fails(w)
    THEN [w |-> Logged(w, "ContainerStart", FALSE), err |-> "daemon"]
    ELSE IF ~HasId(w, id)
    THEN [w |-> Logged(w, "ContainerStart", FALSE), err |-> "no such container"]
    ELSE IF \E c \in w.cs : c.id = id /\ c.net # <<>>
                            /\ ~\E n \in w.nets : n.name = c.net
    THEN [w |-> Logged(w, "ContainerStart", FALSE), err |-> "network not found"]
    ELSE [w |-> SetStatus(Logged(w, "ContainerStart", TRUE), id, "running"), err |-> Nil]

ClientContainerStop(w, id) ==
    IF Fails(w)
    THEN [w |-> Logged(w, "ContainerStop", FALSE), err |-> "daemon"]
    ELSE IF ~HasId(w, id)
    THEN [w |-> Logged(w, "ContainerStop", FALSE), err |-> "no such container"]
    ELSE [w |-> SetStatus(Logged(w, "ContainerStop", TRUE), id, "exited"), err |-> Nil]

\* without Force the daemon refuses to remove a running container
ClientContainerRemove(w, id) ==
    IF Fails(w)
    THEN [w |-> Logged(w, "ContainerRemove", FALSE), err |-> "daemon"]
    ELSE IF ~HasId(w, id)
    THEN [w |-> Logged(w, "ContainerRemove", FALSE), err |-> "no such container"]
    ELSE IF \E c \in w.cs : c.id = id /\ c.status = "running"
    THEN [w |-> Logged(w, "ContainerRemove", FALSE), err |-> "container is running"]
    ELSE [w |-> [Logged(w, "ContainerRemove", TRUE) EXCEPT !.cs = {c \in @ : c.id # id}],
          err |-> Nil]

\* the daemon answers a wait once the container is not running: with an
\* error, or with the status code its process ended with
ClientContainerWait(w, id, code) ==
    IF Fails(w)
    THEN [w |-> Logged(w, "ContainerWait", FALSE), err |-> "daemon", state |-> 0]
    ELSE IF ~HasId(w, id)
    THEN [w |-> Logged(w, "ContainerWait", FALSE), err |-> "no such container", state |-> 0]
    ELSE [w |-> Logged(w, "ContainerWait", TRUE), err |-> Nil, state |-> code]

\* one of the two channels of the wait has something to deliver: the error
\* the environment injects, or the result once the container is not running
WaitAnswered(w, id) ==
    Fails(w) \/ ~\E c \in w.cs : c.id = id /\ c.status = "running"

ClientContainerLogs(w, id) ==
    IF Fails(w)
    THEN [w |-> Logged(w, "ContainerLogs", FALSE), err |-> "daemon", result |-> ""]
    ELSE [w |-> Logged(w, "ContainerLogs", TRUE), err |-> Nil, result |-> w.out]

\* an exec session is created in a running container only
ClientContainerExecCreate(w, id, cmd) ==
    IF Fails(w)
    THEN [w |-> Logged(w, "ContainerExecCreate", FALSE), err |-> "daemon", id |-> NoId]
    ELSE IF ~\E c \in w.cs : c.id = id /\ c.status = "running"
    THEN [w |-> Logged(w, "ContainerExecCreate", FALSE), err |-> "not running",
          id |-> NoId]
    ELSE [w |-> [Logged(w, "ContainerExecCreate", TRUE) EXCEPT
                    !.execs = Append(@, [container |-> id, cmd |-> cmd,
                                         at |-> Len(w.log) + 1])],
          err |-> Nil, id |-> Len(w.execs) + 1]

\* attaching starts the session's command
ClientContainerExecAttach(w, execID) ==
    IF Fails(w)
    THEN [w |-> Logged(w, "ContainerExecAttach", FALSE), err |-> "daemon"]
    ELSE [w |-> Logged(w, "ContainerExecAttach", TRUE), err |-> Nil]

\* the exit code of the session's command
ClientContainerExecInspect(w, execID, code) ==
    IF Fails(w)
    THEN [w |-> Logged(w, "ContainerExecInspect", FALSE), err |-> "daemon", ExitCode |-> 0]
    ELSE [w |-> Logged(w, "ContainerExecInspect", TRUE), err |-> Nil, ExitCode |-> code]

ClientNetworkList(w) ==
    IF Fails(w)
    THEN [w |-> Logged(w, "NetworkList", FALSE), err |-> "daemon", out |-> {}]
    ELSE [w |-> Logged(w, "NetworkList", TRUE), err |-> Nil, out |-> w.nets]

ClientNetworkCreate(w, name) ==
    IF Fails(w)
    THEN [w |-> Logged(w, "NetworkCreate", FALSE), err |-> "daemon", id |-> NoId]
    ELSE [w |-> [Logged(w, "NetworkCreate", TRUE) EXCEPT
                    !.nets = @ \cup {[id |-> w.nid, name |-> name]},
                    !.nid = @ + 1],
          err |-> Nil, id |-> w.nid]

\* the daemon refuses to remove a network a running container is attached to
ClientNetworkRemove(w, id) ==
    IF Fails(w)
    THEN [w |-> Logged(w, "NetworkRemove", FALSE), err |-> "daemon"]
    ELSE IF ~\E n \in w.nets : n.id = id
    THEN [w |-> Logged(w, "NetworkRemove", FALSE), err |-> "no such network"]
    ELSE IF \E n \in w.nets, c \in w.cs :
                n.id = id /\ c.net = n.name /\ c.status = "running"
    THEN [w |-> Logged(w, "NetworkRemove", FALSE), err |-> "active endpoints"]
    ELSE [w |-> [Logged(w, "NetworkRemove", TRUE) EXCEPT !.nets = {n \in @ : n.id # id}],
          err |-> Nil]

(* ------------------------- a call under way --------------------------- *)

\* What a call has come to after some of its steps: it has returned, or it is
\* at pc, where it goes on after a step of the daemon.  id is the container
\* and execID the exec session it is about, i its place in a loop.

\* ExecResult{}: the zero value
NoExecResult == [ExitCode |-> 0, StdOut |-> <<>>, StdErr |-> <<>>]

Returned(w, err) ==
    [w |-> w, pc |-> "returned", err |-> err, id |-> NoId, execID |-> NoId,
     i |-> 0, ran |-> 0, code |-> 0, exit |-> 0, body |-> "", plugins |-> <<>>,
     result |-> NoExecResult, changed |-> FALSE]

Paused(w, pc, id) == [Returned(w, Nil) EXCEPT !.pc = pc, !.id = id]

(* ----------------------- internal/docker: adapter --------------------- *)

\* ListContainers: the identifiers of the containers carrying the site label
ListContainers(w, site) ==
    Bind(ClientContainerList(w, TRUE,
                             IF site = "" THEN <<<<"kana.site">>>> ELSE SiteLabel(site)),
         LAMBDA r :
           IF r.err # Nil
           THEN [w |-> r.w, ids |-> {}, err |-> r.err]
           ELSE [w |-> r.w, ids |-> {c.id : c \in r.out}, err |-> Nil])

\* NameMatches without the trim: the daemon's "/" is compared too
NameMatchesUntrimmed(containerName, name) == containerName = name

\* the comparison of line 85: the wanted name against the trimmed daemon name
NameMatches(containerName, name) == containerName = Trim(name)

\* the first listed container carrying the name (daemon names are unique)
FindByName(out, containerName) == {c \in out : NameMatches(containerName, c.name)}

\* IsContainerRunning listing stopped containers too (All: true)
IsContainerRunningAll(w, containerName) ==
    Bind(ClientContainerList(w, TRUE, <<>>), LAMBDA r :
      IF r.err # Nil
      THEN [w |-> r.w, id |-> NoId, isRunning |-> FALSE]
      ELSE Bind(FindByName(r.out, containerName), LAMBDA found :
             IF found # {}
             THEN [w |-> r.w, id |-> (CHOOSE c \in found : TRUE).id, isRunning |-> TRUE]
             ELSE [w |-> r.w, id |-> NoId, isRunning |-> FALSE]))

\* IsContainerRunning: a failed listing is answered as "not running"
IsContainerRunning(w, containerName) ==
    Bind(ClientContainerList(w, FALSE, <<>>), LAMBDA r :
      IF r.err # Nil
      THEN [w |-> r.w, id |-> NoId, isRunning |-> FALSE]
      ELSE Bind(FindByName(r.out, containerName), LAMBDA found :
             IF found # {}
             THEN [w |-> r.w, id |-> (CHOOSE c \in found : TRUE).id, isRunning |-> TRUE]
             ELSE [w |-> r.w, id |-> NoId, isRunning |-> FALSE]))

ContainerRun(w, config) ==
    Bind(IsContainerRunning(w, config.Name), LAMBDA r :
      IF r.isRunning
      THEN [w |-> r.w, id |-> r.id, err |-> Nil]
      ELSE Bind(ClientContainerCreate(r.w, config), LAMBDA c :
             IF c.err # Nil
             THEN [w |-> c.w, id |-> NoId, err |-> c.err]
             ELSE Bind(ClientContainerStart(c.w, c.id), LAMBDA s :
                    IF s.err # Nil
                    THEN [w |-> s.w, id |-> NoId, err |-> s.err]
                    ELSE [w |-> s.w, id |-> c.id, err |-> Nil])))

ContainerWait(w, id, code) == ClientContainerWait(w, id, code)

ContainerLog(w, id) == ClientContainerLogs(w, id)

\* ContainerRunAndClean begins with ContainerRun (lines 190-193) and then
\* waits (line 196, the select of lines 157-162).

\* ContainerRunAndClean from the answer of the wait on, removing the container
\* only after a zero exit status
ContainerRunAndCleanFinishOnSuccess(w, id, code) ==
    Bind(ContainerWait(w, id, code), LAMBDA wt :
      IF wt.err # Nil
      THEN [w |-> wt.w, statusCode |-> wt.state, body |-> "", err |-> wt.err]
      ELSE Bind(ContainerLog(wt.w, id), LAMBDA lg :
             IF wt.state # 0
             THEN [w |-> lg.w, statusCode |-> wt.state, body |-> lg.result,
                   err |-> Nil]
             ELSE Bind(ClientContainerRemove(lg.w, id), LAMBDA rm :
                    [w |-> rm.w, statusCode |-> wt.state, body |-> lg.result,
                     err |-> rm.err])))

\* ContainerRunAndClean from the answer of the wait on (lines 196-210): the
\* status code, the log, the removal
ContainerRunAndCleanFinish(w, id, code) ==
    Bind(ContainerWait(w, id, code), LAMBDA wt :
      IF wt.err # Nil
      THEN [w |-> wt.w, statusCode |-> wt.state, body |-> "", err |-> wt.err]
      ELSE Bind(ContainerLog(wt.w, id), LAMBDA lg :
             Bind(ClientContainerRemove(lg.w, id), LAMBDA rm :
               [w |-> rm.w, statusCode |-> wt.state, body |-> lg.result,
                err |-> rm.err])))

ContainerStop(w, containerName) ==
    Bind(IsContainerRunning(w, containerName), LAMBDA r :
      IF ~r.isRunning
      THEN [w |-> r.w, ok |-> TRUE, err |-> Nil]
      ELSE Bind(ClientContainerStop(r.w, r.id), LAMBDA s :
             IF s.err # Nil
             THEN [w |-> s.w, ok |-> FALSE, err |-> s.err]
             ELSE Bind(ClientContainerRemove(s.w, r.id), LAMBDA rm :
                    IF rm.err # Nil
                    THEN [w |-> rm.w, ok |-> FALSE, err |-> rm.err]
                    ELSE [w |-> rm.w, ok |-> TRUE, err |-> Nil])))

\* ContainerRestart: stop and start again, a no-op when the name is not running
ContainerRestart(w, containerName) ==
    Bind(IsContainerRunning(w, containerName), LAMBDA r :
      IF ~r.isRunning
      THEN [w |-> r.w, ok |-> TRUE, err |-> Nil]
      ELSE Bind(ClientContainerStop(r.w, r.id), LAMBDA s :
             IF s.err # Nil
             THEN [w |-> s.w, ok |-> FALSE, err |-> s.err]
             ELSE Bind(ClientContainerStart(s.w, r.id), LAMBDA st :
                    IF st.err # Nil
                    THEN [w |-> st.w, ok |-> FALSE, err |-> st.err]
                    ELSE [w |-> st.w, ok |-> TRUE, err |-> Nil])))

\* ContainerExec is three stretches of daemon calls: the listing, the exec
\* session's creation and attachment, and, once the session's stream has
\* ended, the copy's result and the inspection.

\* ContainerExecBegin without the test of isRunning
ContainerExecBeginUnguarded(w, containerName) ==
    Bind(IsContainerRunning(w, containerName), LAMBDA r :
      [w |-> r.w, id |-> r.id, returned |-> FALSE])

\* lines 255-258: returned says that the call has returned ExecResult{}, nil
ContainerExecBegin(w, containerName) ==
    Bind(IsContainerRunning(w, containerName), LAMBDA r :
      [w |-> r.w, id |-> r.id, returned |-> ~r.isRunning])

\* lines 260-297: create the session, attach to it, start the copy
ContainerExecAttach(w, id, command) ==
    Bind(ClientContainerExecCreate(w, id, <<"sh", "-c">> \o command), LAMBDA c :
      IF c.err # Nil
      THEN [w |-> c.w, execID |-> NoId, err |-> c.err]
      ELSE Bind(ClientContainerExecAttach(c.w, c.id), LAMBDA a :
             IF a.err # Nil
             THEN [w |-> a.w, execID |-> NoId, err |-> a.err]
             ELSE [w |-> a.w, execID |-> c.id, err |-> Nil]))

\* lines 299-322, once the stream has ended: what the copy sent on outputDone,
\* then the inspection; ans is what the command wrote and exited with
ContainerExecFinish(w, execID, ans) ==
    Bind(Step(w, "StdCopy"), LAMBDA o :
      IF o.err # Nil
      THEN [w |-> o.w, result |-> NoExecResult, err |-> o.err]
      ELSE Bind(ClientContainerExecInspect(o.w, execID, ans.ExitCode), LAMBDA i :
             IF i.err # Nil
             THEN [w |-> i.w, result |-> NoExecResult, err |-> i.err]
             ELSE [w |-> i.w,
                   result |-> [ExitCode |-> i.ExitCode, StdOut |-> ans.StdOut,
                               StdErr |-> ans.StdErr],
                   err |-> Nil]))

\* findNetworkByName matching no network
findNetworkByNameBlind(w, name) ==
    Bind(ClientNetworkList(w), LAMBDA r :
      IF r.err # Nil
      THEN [w |-> r.w, found |-> FALSE, id |-> NoId, err |-> r.err]
      ELSE [w |-> r.w, found |-> FALSE, id |-> NoId, err |-> Nil])

findNetworkByName(w, name) ==
    Bind(ClientNetworkList(w), LAMBDA r :
      IF r.err # Nil
      THEN [w |-> r.w, found |-> FALSE, id |-> NoId, err |-> r.err]
      ELSE IF \E n \in r.out : n.name = name
      THEN [w |-> r.w, found |-> TRUE,
            id |-> (CHOOSE n \in r.out : n.name = name).id, err |-> Nil]
      ELSE [w |-> r.w, found |-> FALSE, id |-> NoId, err |-> Nil])

findNetworkById(w, id) ==
    Bind(ClientNetworkList(w), LAMBDA r :
      IF r.err # Nil
      THEN [w |-> r.w, found |-> FALSE, err |-> r.err]
      ELSE [w |-> r.w, found |-> \E n \in r.out : n.id = id, err |-> Nil])

EnsureNetwork(w, name) ==
    Bind(findNetworkByName(w, name), LAMBDA f :
      IF f.err # Nil
      THEN [w |-> f.w, created |-> FALSE, err |-> f.err]
      ELSE IF f.found
      THEN [w |-> f.w, created |-> FALSE, err |-> Nil]
      ELSE Bind(ClientNetworkCreate(f.w, name), LAMBDA c :
             IF c.err # Nil
             THEN [w |-> c.w, created |-> FALSE, err |-> c.err]
             ELSE Bind(findNetworkById(c.w, c.id), LAMBDA g :
                    IF g.err # Nil
                    THEN [w |-> g.w, created |-> FALSE, err |-> g.err]
                    ELSE IF g.found
                    THEN [w |-> g.w, created |-> TRUE, err |-> Nil]
                    ELSE [w |-> g.w, created |-> FALSE,
                          err |-> "could not create network"])))

\* RemoveNetwork: removed is true whenever the network was found
RemoveNetwork(w, name) ==
    Bind(findNetworkByName(w, name), LAMBDA f :
      IF f.err # Nil
      THEN [w |-> f.w, removed |-> FALSE, err |-> f.err]
      ELSE IF ~f.found
      THEN [w |-> f.w, removed |-> FALSE, err |-> Nil]
      ELSE Bind(ClientNetworkRemove(f.w, f.id), LAMBDA r :
             [w |-> r.w, removed |-> TRUE, err |-> r.err]))

(* ------------------------ internal/site: the site --------------------- *)

\* getLocalAppDir: os.Getwd, then os.MkdirAll
getLocalAppDir(w) ==
    Bind(Step(w, "Getwd"), LAMBDA g :
      IF g.err # Nil THEN g ELSE Step(g.w, "MkdirAll"))

\* getMounts: os.Getwd; the mounts themselves play no part in the lifecycle
getMounts(w) == Step(w, "Getwd")

IsLocalSite(s) == SiteConfig(s).local

\* GetRunningConfig: the type and local flag the running site was started with
GetRunningConfig(s) == [Type |-> SiteConfig(s).type, Local |-> SiteConfig(s).local]

\* EnsureImage: the image is present afterwards, pulled if it was absent
EnsureImage(w, image) ==
    Bind(Step(w, "ImageList"), LAMBDA l :
      IF l.err # Nil THEN [w |-> l.w, err |-> "daemon"]
      ELSE IF image \in l.w.imgs THEN [w |-> l.w, err |-> Nil]
      ELSE Bind(Step(l.w, "ImagePull"), LAMBDA p :
             IF p.err # Nil THEN [w |-> p.w, err |-> "daemon"]
             ELSE [w |-> [p.w EXCEPT !.imgs = @ \cup {image}], err |-> Nil]))

\* StartContainers running each container without ensuring its image
RECURSIVE StartContainersUnensured(_, _, _)
StartContainersUnensured(w, configs, i) ==
    IF i > Len(configs) THEN [w |-> w, err |-> Nil]
    ELSE Bind(ContainerRun(w, configs[i]), LAMBDA r :
           IF r.err # Nil THEN [w |-> r.w, err |-> r.err]
           ELSE StartContainersUnensured(r.w, configs, i + 1))

\* the loop of StartWordPress over the containers from position i on
RECURSIVE StartContainers(_, _, _)
StartContainers(w, configs, i) ==
    IF i > Len(configs) THEN [w |-> w, err |-> Nil]
    ELSE Bind(EnsureImage(w, configs[i].Image), LAMBDA e :
           IF e.err # Nil THEN [w |-> e.w, err |-> e.err]
           ELSE Bind(ContainerRun(e.w, configs[i]), LAMBDA r :
                  IF r.err # Nil THEN [w |-> r.w, err |-> r.err]
                  ELSE StartContainers(r.w, configs, i + 1)))

\* the directories StartWordPress resolves and creates before the containers
StartDirectories(w, s) ==
    Bind(IF IsLocalSite(s) THEN getLocalAppDir(w) ELSE [w |-> w, err |-> Nil], LAMBDA l :
      IF l.err # Nil THEN l
      ELSE Bind(Step(l.w, "MkdirAll"), LAMBDA a :
             IF a.err # Nil THEN a
             ELSE Bind(Step(a.w, "MkdirAll"), LAMBDA b :
                    IF b.err # Nil THEN b ELSE getMounts(b.w))))

StartWordPress(w, s) ==
    Bind(EnsureNetwork(w, NetworkName), LAMBDA n :
      IF n.err # Nil THEN [w |-> n.w, err |-> n.err]
      ELSE Bind(StartDirectories(n.w, s), LAMBDA d :
             IF d.err # Nil THEN [w |-> d.w, err |-> d.err]
             ELSE StartContainers(d.w, <<DatabaseConfig(s), WordPressConfig(s)>>, 1)))

\* IsSiteRunning: the error of the listing is dropped
IsSiteRunning(w, s) ==
    Bind(ListContainers(w, s), LAMBDA l : [w |-> l.w, running |-> l.ids # {}])

\* traefik.NewTraefik: builds the proxy manager with a docker client of its own
NewTraefik(w) == Step(w, "NewTraefik")

\* MaybeStopTraefik: stop the proxy when no site-labelled container is listed
MaybeStopTraefik(w) ==
    Bind(ListContainers(w, ""), LAMBDA l :
      IF l.err # Nil THEN [w |-> l.w, err |-> l.err]
      ELSE IF l.ids = {}
      THEN Bind(ContainerStop(l.w, TraefikName), LAMBDA s : [w |-> s.w, err |-> s.err])
      ELSE [w |-> l.w, err |-> Nil])

\* StopContainers going on to the next container after a failed stop
RECURSIVE StopContainersThrough(_, _, _)
StopContainersThrough(w, names, i) ==
    IF i > Len(names) THEN [w |-> w, err |-> Nil]
    ELSE Bind(ContainerStop(w, names[i]), LAMBDA r :
           Bind(StopContainersThrough(r.w, names, i + 1), LAMBDA n :
             [w |-> n.w, err |-> IF r.err # Nil THEN r.err ELSE n.err]))

\* the loop of StopWordPress over the site's containers from position i on
RECURSIVE StopContainers(_, _, _)
StopContainers(w, names, i) ==
    IF i > Len(names) THEN [w |-> w, err |-> Nil]
    ELSE Bind(ContainerStop(w, names[i]), LAMBDA r :
           IF r.err # Nil THEN [w |-> r.w, err |-> r.err]
           ELSE StopContainers(r.w, names, i + 1))

StopWordPress(w, s) ==
    Bind(StopContainers(w, GetSiteContainers(s), 1), LAMBDA c :
      IF c.err # Nil THEN c
      ELSE Bind(NewTraefik(c.w), LAMBDA t :
             IF t.err # Nil THEN [w |-> t.w, err |-> t.err]
             ELSE MaybeStopTraefik(t.w)))

\* RunWPCli up to the wait of ContainerRunAndClean (lines 261-312 and 190-193):
\* the one-shot wp-cli container runs; id is the container the call waits for
RunWPCliStart(w, s, command) ==
    Bind(EnsureNetwork(w, NetworkName), LAMBDA n :
      IF n.err # Nil THEN [w |-> n.w, id |-> NoId, err |-> n.err]
      ELSE
      Bind(IF GetRunningConfig(s).Local THEN getLocalAppDir(n.w)
           ELSE [w |-> n.w, err |-> Nil], LAMBDA l :
        IF l.err # Nil THEN [w |-> l.w, id |-> NoId, err |-> l.err]
        ELSE
        Bind(getMounts(l.w), LAMBDA m :
          IF m.err # Nil THEN [w |-> m.w, id |-> NoId, err |-> m.err]
          ELSE
          Bind(EnsureImage(m.w, CliImage(s)), LAMBDA e :
            IF e.err # Nil THEN [w |-> e.w, id |-> NoId, err |-> e.err]
            ELSE ContainerRun(e.w, CliConfig(s, command))))))

\* RunWPCli from the answer of the wait on (lines 312-317); code is the
\* status the command exited with
RunWPCliFinish(w, id, code) ==
    Bind(ContainerRunAndCleanFinish(w, id, code), LAMBDA r :
      IF r.err # Nil THEN [w |-> r.w, output |-> "", err |-> r.err]
      ELSE [w |-> r.w, output |-> r.body, err |-> Nil])

\* what "wp plugin list --format=json" may leave on the container's output
PluginListings ==
    {"",
     "null",
     "[]",
     "Error: This does not seem to be a WordPress installation.",
     "[{\"name\":\"akismet\",\"status\":\"inactive\"},{\"name\":\"zeta\",\"status\":\"active\"},{\"name\":\"hello\",\"status\":\"inactive\"},{\"name\":\"alpha\",\"status\":\"active\"}]",
     "[{\"name\":\"advanced-cache.php\",\"status\":\"dropin\"},{\"name\":\"a\",\"status\":\"active\"},{\"name\":\"beta\",\"status\":\"must-use\"},{\"name\":\"beta\",\"status\":\"dropin\"}]",
     "[{\"name\":\"gamma\"},{\"name\":\"hello\",\"status\":\"dropin\"},{\"name\":\"b\",\"status\":\"active\"}",
     "[{\"name\":\"gamma\"},{\"name\":\"b\",\"status\":\"active\"}]"}

PluginInfo(name, status) == [Name |-> name, Status |-> status]

\* json.Unmarshal into []PluginInfo: the entries in the order of the text, a
\* field the text lacks left empty; no entries for null; an error for text
\* that is not a JSON array
Unmarshal(text) ==
    CASE text = "null" -> [rawPlugins |-> <<>>, err |-> Nil]
      [] text = "[]" -> [rawPlugins |-> <<>>, err |-> Nil]
      [] text = "[{\"name\":\"akismet\",\"status\":\"inactive\"},{\"name\":\"zeta\",\"status\":\"active\"},{\"name\":\"hello\",\"status\":\"inactive\"},{\"name\":\"alpha\",\"status\":\"active\"}]"
           -> [rawPlugins |-> <<PluginInfo("akismet", "inactive"),
                                PluginInfo("zeta", "active"),
                                PluginInfo("hello", "inactive"),
                                PluginInfo("alpha", "active")>>,
               err |-> Nil]
      [] text = "[{\"name\":\"advanced-cache.php\",\"status\":\"dropin\"},{\"name\":\"a\",\"status\":\"active\"},{\"name\":\"beta\",\"status\":\"must-use\"},{\"name\":\"beta\",\"status\":\"dropin\"}]"
           -> [rawPlugins |-> <<PluginInfo("advanced-cache.php", "dropin"),
                                PluginInfo("a", "active"),
                                PluginInfo("beta", "must-use"),
                                PluginInfo("beta", "dropin")>>,
               err |-> Nil]
      [] text = "[{\"name\":\"gamma\"},{\"name\":\"b\",\"status\":\"active\"}]"
           -> [rawPlugins |-> <<PluginInfo("gamma", ""), PluginInfo("b", "active")>>,
               err |-> Nil]
      [] OTHER -> [rawPlugins |-> <<>>, err |-> "json"]

\* KeepsPlugin letting akismet through
KeepsPluginAndAkismet(s, plugin) ==
    /\ plugin.Status # "dropin"
    /\ plugin.Name # s
    /\ plugin.Name # "hello"

\* the name of an entry the listing keeps (line 343)
KeepsPlugin(s, plugin) ==
    /\ plugin.Status # "dropin"
    /\ plugin.Name # s
    /\ plugin.Name # "hello"
    /\ plugin.Name # "akismet"

RECURSIVE FilterPlugins(_, _, _, _)
FilterPlugins(s, rawPlugins, i, plugins) ==
    IF i > Len(rawPlugins) THEN plugins
    ELSE FilterPlugins(s, rawPlugins, i + 1,
                       IF KeepsPlugin(s, rawPlugins[i])
                       THEN Append(plugins, rawPlugins[i].Name)
                       ELSE plugins)

\* the command of GetInstalledWordPressPlugins (lines 323-327)
PluginListCommand == <<"plugin", "list", "--format=json">>

\* GetInstalledWordPressPlugins from the answer of the wait on (lines 329-349)
GetInstalledWordPressPluginsFinish(w, s, id, code) ==
    Bind(RunWPCliFinish(w, id, code), LAMBDA r :
      IF r.err # Nil THEN [w |-> r.w, plugins |-> <<>>, err |-> r.err]
      ELSE Bind(Unmarshal(r.output), LAMBDA u :
             IF u.err # Nil THEN [w |-> r.w, plugins |-> <<>>, err |-> u.err]
             ELSE [w |-> r.w, plugins |-> FilterPlugins(s, u.rawPlugins, 1, <<>>),
                   err |-> Nil]))

\* setupCommand: the arguments of "wp core install"; an argument that is
\* formatted is the sequence of its parts
SetupCommand(s) ==
    <<"core",
      "install",
      <<"--url=">> \o GetURL(SiteURLs(s), FALSE),
      <<"--title=Kana Development ", SiteConfig(s).type, ": ", s>>,
      <<"--admin_user=", DynamicConfig.admin.username>>,
      <<"--admin_password=", DynamicConfig.admin.password>>,
      <<"--admin_email=", DynamicConfig.admin.email>> >>

\* InstallWordPress from the answer of the wait on (lines 233-234)
InstallWordPressFinish(w, id, code) ==
    Bind(RunWPCliFinish(w, id, code), LAMBDA r : [w |-> r.w, err |-> r.err])

\* the loop of InstallDefaultPlugins from plugin i on, up to the wait of
\* plugin i's command; ran counts the commands handed to RunWPCli
InstallPlugins(w, s, i, ran) ==
    IF i > Len(SiteConfig(s).plugins) THEN [Returned(w, Nil) EXCEPT !.ran = ran]
    ELSE Bind(RunWPCliStart(w, s, <<"plugin", "install", "--activate",
                                    SiteConfig(s).plugins[i]>>), LAMBDA r :
           IF r.err # Nil THEN [Returned(r.w, r.err) EXCEPT !.ran = ran + 1]
           ELSE [Paused(r.w, "wait", r.id) EXCEPT !.i = i, !.ran = ran + 1])

\* the loop from the answer of the wait of plugin i's command on
InstallPluginsFinish(w, s, id, code, i, ran) ==
    Bind(RunWPCliFinish(w, id, code), LAMBDA r :
      IF r.err # Nil THEN [Returned(r.w, r.err) EXCEPT !.ran = ran]
      ELSE InstallPlugins(r.w, s, i + 1, ran))

InstallDefaultPlugins(w, s) == InstallPlugins(w, s, 1, 0)

(* --------------------------- InstallXdebug ---------------------------- *)

\* the commands of InstallXdebug, in order (lines 552-561)
XdebugCommands ==
    <<"pecl list | grep xdebug",
      "pecl install xdebug",
      "docker-php-ext-enable xdebug",
      "echo 'xdebug.start_with_request=yes' >> /usr/local/etc/php/php.ini",
      "echo 'xdebug.mode=debug' >> /usr/local/etc/php/php.ini",
      "echo 'xdebug.client_host=host.docker.internal' >> /usr/local/etc/php/php.ini",
      "echo 'xdebug.discover_client_host=on' >> /usr/local/etc/php/php.ini",
      "echo 'xdebug.start_with_request=trigger' >> /usr/local/etc/php/php.ini">>

\* strings.Contains on a text of tokens
Contains(text, token) == \E i \in 1..Len(text) : text[i] = token

\* what one command writes and exits with
Answer(out, code) == [StdOut |-> out, StdErr |-> <<>>, ExitCode |-> code]

\* what the commands of one InstallXdebug may answer: xdebug found by the
\* check; not found and the install succeeds; not found and the install fails
XdebugAnswers ==
    { [i \in 1..Len(XdebugCommands) |->
          IF i = 1 THEN Answer(<<"xdebug", "3.1.5", "stable">>, 0) ELSE Answer(<<>>, 0)],
      [i \in 1..Len(XdebugCommands) |->
          IF i = 1 THEN Answer(<<>>, 1)
          ELSE IF i = 2 THEN Answer(<<"install", "ok:", "xdebug">>, 0)
          ELSE Answer(<<>>, 0)],
      [i \in 1..Len(XdebugCommands) |->
          IF i = 1 THEN Answer(<<>>, 1)
          ELSE IF i = 2 THEN Answer(<<"pecl", "failed">>, 1)
          ELSE Answer(<<>>, 0)] }

\* runCli from the return of its ContainerExec on (lines 590-600): o is what
\* ContainerExec returned; restart the app container if asked
runCli(s, o, restart) ==
    IF o.err # Nil
    THEN [w |-> o.w, output |-> NoExecResult, err |-> o.err]
    ELSE IF restart
    THEN Bind(ContainerRestart(o.w, WordPressName(s)), LAMBDA r :
           [w |-> r.w, output |-> o.result, err |-> r.err])
    ELSE [w |-> o.w, output |-> o.result, err |-> Nil]

RECURSIVE XdebugLoop(_, _, _)

\* the loop of InstallXdebug from the return of command i's ContainerExec on
\* (lines 572-581); only the last command restarts
XdebugReturned(s, i, o) ==
    Bind(runCli(s, o, i = Len(XdebugCommands)), LAMBDA r :
      IF r.err # Nil THEN Returned(r.w, r.err)
      ELSE IF i = 1 /\ Contains(r.output.StdOut, "xdebug") THEN Returned(r.w, Nil)
      ELSE XdebugLoop(r.w, s, i + 1))

\* the loop from command i on, up to the listing that finds the app container
\* running: there the call is between its listing and the exec's creation
XdebugLoop(w, s, i) ==
    IF i > Len(XdebugCommands) THEN [Returned(w, Nil) EXCEPT !.changed = TRUE]
    ELSE Bind(ContainerExecBegin(w, WordPressName(s)), LAMBDA b :
           IF b.returned
           THEN XdebugReturned(s, i, [w |-> b.w, result |-> NoExecResult, err |-> Nil])
           ELSE [Paused(b.w, "listed", b.id) EXCEPT !.i = i])

InstallXdebug(w, s) ==
    IF ~SiteConfig(s).xdebug THEN Returned(w, Nil)
    ELSE XdebugLoop(w, s, 1)

(* --------------------------- VerifySite ------------------------------- *)

\* the retry budget of VerifySite's loop
MaxTries == 30

\* what one GET of the secure URL may answer: a status code or a transport error
Responses == {200, 404, 502, -1}

TransportError == -1

VsInit ==
    [pc |-> "idle", tries |-> 0, gets |-> 0, sleeps |-> 0, status |-> 0,
     outcome |-> "none", never200 |-> TRUE, errAt |-> 0]

\* one client.Get: counted, its answer recorded
Get(v, r) ==
    [v EXCEPT !.gets = @ + 1,
              !.status = IF r = TransportError THEN v.status ELSE r,
              !.never200 = @ /\ r # 200 /\ r # TransportError,
              !.errAt = IF r = TransportError /\ @ = 0 THEN v.gets + 1 ELSE @]

Finish(v, outcome) == [v EXCEPT !.pc = "done", !.outcome = outcome]

\* os.ReadFile of the root certificate
VerifyReadCert(v, ok) ==
    IF ok THEN [v EXCEPT !.pc = "first"] ELSE Finish(v, "error")

\* the GET before the loop (line 500)
VerifyFirstGet(v, r) ==
    IF r = TransportError THEN Finish(Get(v, r), "error")
    ELSE [Get(v, r) EXCEPT !.pc = "head", !.tries = 0]

\* the loop condition (line 507)
VerifyLoopHead(v) ==
    IF v.status # 200 THEN [v EXCEPT !.pc = "body"] ELSE Finish(v, "succeeded")

\* the budget test one try early
BudgetSpentEarly(tries) == tries = MaxTries - 1

\* the test of the retry budget (line 518)
BudgetSpent(tries) == tries = MaxTries

\* the loop body counting a transport error as one more failed try
VerifyLoopBodyRetrying(v, r) ==
    LET g == Get(v, r)
    IN  IF r = 200 THEN Finish(g, "succeeded")
        ELSE IF BudgetSpent(v.tries) THEN Finish(g, "timeout")
        ELSE [g EXCEPT !.tries = @ + 1, !.sleeps = @ + 1, !.pc = "head"]

\* one pass of the loop body (lines 509-523)
VerifyLoopBody(v, r) ==
    LET g == Get(v, r)
    IN  IF r = TransportError THEN Finish(g, "error")
        ELSE IF r = 200 THEN Finish(g, "succeeded")
        ELSE IF BudgetSpent(v.tries) THEN Finish(g, "timeout")
        ELSE [g EXCEPT !.tries = @ + 1, !.sleeps = @ + 1, !.pc = "head"]

(* --------------------- ensureDockerIsAvailable ------------------------ *)

\* the bound of the retry loop (lines 88 and 92)
MaxRetries == 12

\* the platforms the tool runs on; only darwin can launch the daemon
Platforms == {"darwin", "linux", "windows"}

\* what a probe (the trivial ContainerList) may answer: nil or an error
ProbeResults == {Nil, "connection refused", "permission denied"}

UnableToStart == "error: unable to start Docker for Mac"

\* no client constructed yet; probes, sleeps and okAt (the probe that first
\* succeeded) record what the call has done
DkInit ==
    [pc |-> "idle", goos |-> "", client |-> FALSE, err |-> Nil, retries |-> 0,
     probes |-> 0, sleeps |-> 0, launched |-> FALSE, okAt |-> 0]

DkReturn(d, err) == [d EXCEPT !.pc = "done", !.err = err]

\* what client.NewClientWithOpts returns when it cannot build the client
ClientError == "unable to parse docker host"

\* NewController up to ensureDockerIsAvailable (lines 59-66): without a client
\* the call returns the constructor's error and probes nothing
NewClient(d, goos, ok) ==
    IF ok THEN [d EXCEPT !.goos = goos, !.client = TRUE, !.pc = "probe"]
    ELSE DkReturn([d EXCEPT !.goos = goos], ClientError)

\* one ContainerList probe answered with r
DkProbed(d, r) ==
    [d EXCEPT !.probes = @ + 1, !.err = r,
              !.okAt = IF r = Nil /\ @ = 0 THEN d.probes + 1 ELSE @]

\* the first probe (lines 76-78 and 107)
DockerProbe(d, r) ==
    IF r # Nil /\ d.goos = "darwin" THEN [DkProbed(d, r) EXCEPT !.pc = "launch"]
    ELSE DkReturn(DkProbed(d, r), r)

\* open -a Docker (lines 80-86)
DockerLaunch(d, ok) ==
    IF ok THEN [d EXCEPT !.launched = TRUE, !.retries = 0, !.pc = "head"]
    ELSE DkReturn([d EXCEPT !.launched = TRUE], UnableToStart)

\* the bound test one round late
RetriesSpentLate(retries) == retries = MaxRetries + 1

\* the test of line 92
RetriesSpent(retries) == retries = MaxRetries

\* the loop condition and the increment (lines 88-90); past the loop the last
\* probe's error is returned (line 107)
DockerLoopHead(d) ==
    IF d.retries <= MaxRetries
    THEN [d EXCEPT !.retries = @ + 1, !.pc = "bound"]
    ELSE DkReturn(d, d.err)

\* the bound test (lines 92-95)
DockerLoopBound(d) ==
    IF RetriesSpent(d.retries) THEN DkReturn(d, UnableToStart)
    ELSE [d EXCEPT !.pc = "sleep"]

\* time.Sleep(5 * time.Second) (line 97)
DockerSleep(d) == [d EXCEPT !.sleeps = @ + 1, !.pc = "reprobe"]

\* the probe inside the loop (lines 99-102)
DockerReprobe(d, r) ==
    IF r = Nil THEN DkReturn(DkProbed(d, r), r)
    ELSE [DkProbed(d, r) EXCEPT !.pc = "head"]

(* ------------------- ContainerExec: the stream copy ------------------- *)

\* One call of ContainerExec, step by step. pc is the caller's position, task
\* the background task's; offered is the value the task holds out on the
\* unbuffered channel outputDone while it is blocked on its send; stream is
\* the attached connection, pending the frames it has delivered and nobody has
\* read yet, sent every frame it ever delivered.

\* the frames of the multiplexed stream: a descriptor and a payload
Frames == [fd : {"stdout", "stderr"}, data : {"x", "y"}]

\* no exec call under way
ExInit ==
    [pc |-> "idle", task |-> "none", offered |-> Nil, stream |-> "closed",
     pending |-> <<>>, sent |-> <<>>, outBuf |-> <<>>, errBuf |-> <<>>,
     code |-> 0, result |-> NoExecResult, err |-> Nil]

\* return ExecResult{}, err
ExecReturn(e, err) == [e EXCEPT !.pc = "returned", !.result = NoExecResult, !.err = err]

\* lines 255-258: the command exits with code once it has run
ExecBegin(e, isRunning, code) ==
    IF ~isRunning THEN ExecReturn(e, Nil)
    ELSE [e EXCEPT !.pc = "create", !.code = code]

\* lines 274-277
ExecCreate(e, ok) ==
    IF ~ok THEN ExecReturn(e, "daemon") ELSE [e EXCEPT !.pc = "attach"]

\* lines 282-285: the connection is open from here on
ExecAttach(e, ok) ==
    IF ~ok THEN ExecReturn(e, "daemon")
    ELSE [e EXCEPT !.pc = "spawn", !.stream = "open"]

\* lines 290-297: make(chan error) and go func()
ExecSpawn(e) == [e EXCEPT !.pc = "select", !.task = "copy"]

\* the command writes a frame to the connection
StreamProduce(e, frame) ==
    [e EXCEPT !.pending = Append(@, frame), !.sent = Append(@, frame)]

\* the connection ends: the command is over ("ended") or the connection is
\* lost ("broken")
StreamClose(e, how) == [e EXCEPT !.stream = how]

\* StdCopy: one frame demultiplexed into the buffer of its descriptor
TaskCopy(e) ==
    IF Head(e.pending).fd = "stdout"
    THEN [e EXCEPT !.outBuf = Append(@, Head(e.pending).data), !.pending = Tail(@)]
    ELSE [e EXCEPT !.errBuf = Append(@, Head(e.pending).data), !.pending = Tail(@)]

\* StreamDrained holding at any time
StreamDrainedAlways(e) == TRUE

\* StdCopy returns when the reader has nothing left and will have nothing more
StreamDrained(e) == e.pending = <<>> /\ e.stream # "open"

\* line 296: the task holds out StdCopy's error on the channel
TaskSend(e) ==
    [e EXCEPT !.task = "send",
              !.offered = IF e.stream = "broken" THEN "read" ELSE Nil]

\* context.Background().Done() is a nil channel: a receive from it is never ready
BackgroundDone == FALSE

\* lines 299-308: the select. A receive from outputDone is ready when the task
\* is blocked on its send; the two meet and the task ends
ExecSelect(e) ==
    IF e.task = "send"
    THEN IF e.offered # Nil
         THEN [ExecReturn(e, e.offered) EXCEPT !.task = "done", !.offered = Nil]
         ELSE [e EXCEPT !.pc = "inspect", !.task = "done"]
    ELSE ExecReturn(e, "context")

\* lines 311-321
ExecInspect(e, ok) ==
    IF ~ok THEN ExecReturn(e, "daemon")
    ELSE [e EXCEPT !.pc = "returned",
                   !.result = [ExitCode |-> e.code, StdOut |-> e.outBuf,
                               StdErr |-> e.errBuf],
                   !.err = Nil]

(* --------------- ContainerRun: two invocations at once ---------------- *)

\* Two invocations of the tool run ContainerRun for one name; each is a
\* process of its own and only the daemon is shared. pc is the daemon call
\* the invocation makes next, made says that its ContainerCreate was accepted.

Invocations == {1, 2}

\* the container specifications the two invocations may both run
RaceConfigs == {DatabaseConfig("a"), WordPressConfig("a")}

\* no invocation under way
InvInit ==
    [name |-> <<>>,
     procs |-> [p \in Invocations |->
                  [pc |-> "idle", id |-> NoId, err |-> Nil, made |-> FALSE]]]

RaceConfig(name) == CHOOSE config \in RaceConfigs : config.Name = name

\* return id, err
RunReturn(pr, id, err) == [pr EXCEPT !.pc = "done", !.id = id, !.err = err]

\* lines 109-112: r is what IsContainerRunning answered
RunListed(pr, r) ==
    IF r.isRunning THEN RunReturn(pr, r.id, Nil) ELSE [pr EXCEPT !.pc = "create"]

\* RunCreated answering a refused creation as success
RunCreatedSwallowing(pr, c) ==
    IF c.err # Nil THEN RunReturn(pr, NoId, Nil)
    ELSE [pr EXCEPT !.pc = "start", !.id = c.id, !.made = TRUE]

\* lines 131-143: c is what ContainerCreate answered
RunCreated(pr, c) ==
    IF c.err # Nil THEN RunReturn(pr, NoId, c.err)
    ELSE [pr EXCEPT !.pc = "start", !.id = c.id, !.made = TRUE]

\* lines 145-150: s is what ContainerStart answered
RunStarted(pr, s) ==
    IF s.err # Nil THEN RunReturn(pr, NoId, s.err) ELSE RunReturn(pr, pr.id, Nil)

(* --------------------------- site identity ---------------------------- *)

\* Names are sequences of tokens, paths are sequences of segments.

\* appConfig.SanitizeSiteName, token by token: lower case, no blanks
SanitizeToken(k) ==
    CASE k = "My" -> "my"
      [] k = "Site" -> "site"
      [] k = " " -> "-"
      [] k = "_" -> "-"
      [] OTHER -> k

SanitizeSiteName(name) == [i \in 1..Len(name) |-> SanitizeToken(name[i])]

\* path.Join: the non-empty elements in order, as segments of one path
PathJoin(dir, elems) ==
    dir \o SelectSeq(elems, LAMBDA e : e # <<>>)

\* the static configurations the configuration provider may hand to NewSite:
\* the site is named after the working directory and kept under
\* <AppDirectory>/sites
AppDirectories == {<<<<"home">>, <<".config">>, <<"kana">>>>, <<<<"opt">>, <<"kana">>>>}

AppDomains == {AppDomain, "kana.test"}

StaticConfigs ==
    { [AppDirectory |-> dir,
       SiteDirectory |-> PathJoin(dir, <<<<"sites">>, name>>),
       WorkingDirectory |-> <<<<"src">>, name>>,
       SiteName |-> name,
       AppDomain |-> dom,
       RootCert |-> <<"kana.root.pem">>]
      : dir \in AppDirectories, dom \in AppDomains,
        name \in {<<"demo">>, <<"my", "-", "plugin">>} }

\* no Site constructed yet
NoSite ==
    [made |-> FALSE, StaticConfig |-> <<>>, rootCert |-> <<>>, siteDomain |-> <<>>,
     secureURL |-> <<>>, url |-> <<>>, err |-> Nil, use |-> ""]

\* NewSite: got says how far construction gets: the docker client fails
\* (line 391), the site's options fail (line 400, the static configuration
\* already stored), or everything is had
NewSite(staticConfig, got) ==
    IF got = "client" THEN [NoSite EXCEPT !.err = "client"]
    ELSE IF got = "options"
    THEN [NoSite EXCEPT !.StaticConfig = staticConfig, !.err = "options"]
    ELSE [made |-> TRUE,
          StaticConfig |-> staticConfig,
          rootCert |-> PathJoin(staticConfig.AppDirectory,
                                <<<<"certs">>, staticConfig.RootCert>>),
          siteDomain |-> SiteDomain(staticConfig.SiteName, staticConfig.AppDomain),
          secureURL |-> SecureURL(SiteDomain(staticConfig.SiteName,
                                             staticConfig.AppDomain)),
          url |-> InsecureURL(SiteDomain(staticConfig.SiteName,
                                         staticConfig.AppDomain)),
          err |-> Nil, use |-> ""]

\* what a command line says: the command, whether --name was given and its
\* value, whether one of --plugin, --theme, --local was given
Commands ==
    [Use : {"start", "stop", "config"},
     nameChanged : BOOLEAN,
     name : {<<"blog">>, <<"My", " ", "Site">>, <<"my", "_", "site">>},
     typeChanged : BOOLEAN]

\* what the file system answers while the link file is read: whether it is
\* found, unreadable or missing, and whether the directory and the file can
\* then be written
LinkReads ==
    [read : {"found", "unreadable", "missing"}, mkdir : BOOLEAN, write : BOOLEAN]

\* the link a link file that exists holds
StoredLink == <<<<"work">>, <<"linked">>>>

\* Rename leaving the insecure URL as it was
RenameKeepingURL(s, name) ==
    [s EXCEPT !.StaticConfig.SiteName = name,
              !.StaticConfig.SiteDirectory =
                  PathJoin(s.StaticConfig.AppDirectory, <<<<"sites">>, name>>),
              !.siteDomain = SiteDomain(name, s.StaticConfig.AppDomain),
              !.secureURL = SecureURL(SiteDomain(name, s.StaticConfig.AppDomain))]

\* lines 436-441: the name and every field derived from it
Rename(s, name) ==
    [s EXCEPT !.StaticConfig.SiteName = name,
              !.StaticConfig.SiteDirectory =
                  PathJoin(s.StaticConfig.AppDirectory, <<<<"sites">>, name>>),
              !.siteDomain = SiteDomain(name, s.StaticConfig.AppDomain),
              !.secureURL = SecureURL(SiteDomain(name, s.StaticConfig.AppDomain)),
              !.url = InsecureURL(SiteDomain(name, s.StaticConfig.AppDomain))]

\* lines 446-469: read the link file, create it when missing, take the link
LinkSite(s, siteLink, fs) ==
    IF fs.read = "missing" /\ ~fs.mkdir THEN [s EXCEPT !.err = "mkdir"]
    ELSE IF fs.read = "missing" /\ ~fs.write THEN [s EXCEPT !.err = "write"]
    ELSE [s EXCEPT !.StaticConfig.WorkingDirectory =
                      IF fs.read = "found" THEN StoredLink ELSE siteLink,
                   !.err = Nil]

ProcessNameFlag(s, cmd, fs) ==
    IF cmd.Use \in {"config", "version", "help"} THEN [s EXCEPT !.err = Nil]
    ELSE IF ~cmd.nameChanged
    THEN LinkSite(s, s.StaticConfig.WorkingDirectory, fs)
    ELSE IF cmd.Use = "start" /\ cmd.typeChanged
    THEN [s EXCEPT !.err = "invalid flags detected"]
    ELSE Bind(Rename(s, SanitizeSiteName(cmd.name)), LAMBDA r :
           LinkSite(r, r.StaticConfig.SiteDirectory, fs))

(* ------------------------------ state --------------------------------- *)

\* the sets of at most k failing positions among the first n steps
RECURSIVE FaultSets(_, _)
FaultSets(k, n) ==
    IF k = 0 THEN {{}}
    ELSE LET S == FaultSets(k - 1, n)
         IN  S \cup {s \cup {i} : s \in S, i \in 1..n}

\* the faults the environment may inject into an operation of at most n steps
Faults(n) == FaultSets(MaxFaults, n)

\* every injected fault was met by a step of the operation
FaultsMet(w) == \A i \in w.faults : i <= Len(w.log)

\* the last position of a set of faults, 0 for the empty set
LastFault(f) == IF f = {} THEN 0 ELSE CHOOSE i \in f : \A j \in f : j <= i

\* the sets of at most k failing positions after position from, each position
\* one of a step that Run makes when the positions before it fail: Run(f) is
\* the outcome of the steps under the faults f
ReachedFaults(Run(_), from, k) ==
    LET S[n \in 0..(IF k > 0 THEN k ELSE 0)] ==
          IF n = 0 THEN {{}}
          ELSE S[n - 1] \cup
               UNION {{f \cup {i} :
                         i \in ((IF LastFault(f) > from THEN LastFault(f) ELSE from) + 1)
                                 ..Len(Run(f).w.log)} :
                      f \in S[n - 1]}
    IN  S[IF k > 0 THEN k ELSE 0]

\* the faults the environment may inject into an operation: at most MaxFaults
\* of the steps it makes fail
Injected(Run(_)) == ReachedFaults(Run, 0, MaxFaults)

\* the daemon still has identifiers to hand out
WithinIds(w) == w.nid <= MaxIds + 1

WithinSiteIds(w) == w.nid <= MaxSiteIds + 1

\* the container specifications handed to the adapter directly
Configs == {DatabaseConfig("a"), WordPressConfig("a"), CliConfig("a", <<"help">>)}

Names == {c.Name : c \in Configs} \cup {TraefikName}

\* the operation that has just run and what it returned: op, its argument
\* (site or name), the error, identifier, status code and text returned, the
\* status the command exited with (exit), the steps made (log), the daemon's
\* containers before it ran (pre), and what the operation completed just
\* before it says about this one (prevId, chain)
NoLast ==
    [op |-> "none", site |-> "", name |-> <<>>, err |-> Nil, id |-> NoId,
     code |-> 0, exit |-> 0, body |-> "", log |-> <<>>, pre |-> {},
     prevId |-> NoId, chain |-> FALSE, ran |-> 0,
     result |-> NoExecResult, execs |-> <<>>, preNets |-> {}, plugins |-> <<>>]

\* the operation completed just before, when nothing has happened since
NoHist == [op |-> "none", site |-> "", name |-> <<>>, id |-> NoId, fresh |-> FALSE]

\* the call under way: the operation, where it goes on (pc), its arguments,
\* the container (id) and exec session (execID) it is about, its place in a
\* loop (i, ran), what its commands will answer (answers), the status its
\* first command exited with (exit), and the steps (log), exec sessions
\* (execs) and containers at its start (pre) as in last
NoCall ==
    [op |-> "none", pc |-> "none", site |-> "", name |-> <<>>, id |-> NoId,
     execID |-> NoId, i |-> 0, ran |-> 0, exit |-> 0, answers |-> <<>>,
     log |-> <<>>, execs |-> <<>>, pre |-> {}]

Init ==
    /\ daemon = [cs |-> {}, nets |-> {}, imgs |-> {}, nid |-> 1]
    /\ last = NoLast
    /\ hist = NoHist
    /\ vs = VsInit
    /\ dk = DkInit
    /\ ident = NoSite
    /\ ex = ExInit
    /\ inv = InvInit
    /\ call = NoCall

\* no call is under way and none has just returned
Idle == last.op = "none" /\ call.op = "none"

\* the steps of a log that failed
FailedSteps(log) == {i \in 1..Len(log) : ~log[i].ok}

\* the faults the environment may inject into the steps that a call which has
\* made the steps of log goes on to make
InjectedAfter(Run(_), log) ==
    ReachedFaults(Run, Len(log), MaxFaults - Cardinality(FailedSteps(log)))

\* the world in which the call under way goes on: the daemon as it is now,
\* the steps the call has made
Resumed(faults) ==
    [World(daemon, faults) EXCEPT !.log = call.log, !.execs = call.execs]

\* a call c that has just begun: nothing of it is under way yet
Begun(op, site, name) ==
    [NoCall EXCEPT !.op = op, !.site = site, !.name = name, !.pre = daemon.cs]

\* the state after a stretch of call c that came to p: what the call returned
\* is in last for its caller, or the call is under way at p.pc
Settle(c, p) ==
    /\ daemon' = DaemonOf(p.w)
    /\ IF p.pc = "returned"
       THEN /\ last' = [NoLast EXCEPT
                           !.op = c.op, !.site = c.site, !.name = c.name,
                           !.err = p.err, !.code = p.code, !.exit = p.exit,
                           !.body = p.body, !.log = p.w.log, !.pre = c.pre,
                           !.chain = p.changed, !.ran = p.ran,
                           !.result = IF c.op = "InstallXdebug"
                                      THEN c.answers[1] ELSE p.result,
                           !.execs = p.w.execs, !.plugins = p.plugins]
            /\ call' = NoCall
       ELSE /\ last' = NoLast
            /\ call' = [c EXCEPT !.pc = p.pc, !.id = p.id, !.execID = p.execID,
                                 !.i = p.i, !.ran = p.ran, !.exit = p.exit,
                                 !.log = p.w.log, !.execs = p.w.execs]
    /\ hist' = NoHist
    /\ UNCHANGED <<vs, dk, ident, ex, inv>>

\* the containers of site s: those the filter of ListContainers selects, the
\* ones labelled kana.site=s
SiteContainers(cs, s) == {c \in cs : Matches(c, SiteLabel(s))}

(* ------------------------------ actions ------------------------------- *)

ContainerRunAct ==
    /\ Idle
    /\ \E config \in Configs :
        \E f \in Injected(LAMBDA g : ContainerRun(World(daemon, g), config)) :
        \E r \in {ContainerRun(World(daemon, f), config)} :
            /\ FaultsMet(r.w) /\ WithinIds(r.w)
            /\ daemon' = DaemonOf(r.w)
            /\ last' = [NoLast EXCEPT !.op = "ContainerRun", !.name = config.Name,
                           !.err = r.err, !.id = r.id, !.log = r.w.log,
                           !.pre = daemon.cs,
                           !.prevId = IF hist.op = "ContainerRun"
                                         /\ hist.name = config.Name
                                      THEN hist.id ELSE NoId]
            /\ hist' = NoHist
            /\ UNCHANGED <<vs, dk, ident, ex, inv, call>>

ContainerStopAct ==
    /\ Idle
    /\ \E name \in Names :
        \E f \in Injected(LAMBDA g : ContainerStop(World(daemon, g), name)) :
        \E r \in {ContainerStop(World(daemon, f), name)} :
            /\ FaultsMet(r.w)
            /\ daemon' = DaemonOf(r.w)
            /\ last' = [NoLast EXCEPT !.op = "ContainerStop", !.name = name,
                           !.err = r.err, !.chain = r.ok, !.log = r.w.log,
                           !.pre = daemon.cs]
            /\ hist' = NoHist
            /\ UNCHANGED <<vs, dk, ident, ex, inv, call>>

\* ContainerRunAndClean up to its wait
ContainerRunAndCleanAct ==
    /\ Idle
    /\ \E config \in Configs :
        \E f \in Injected(LAMBDA g : ContainerRun(World(daemon, g), config)) :
        \E r \in {ContainerRun(World(daemon, f), config)} :
            /\ FaultsMet(r.w) /\ WithinIds(r.w)
            /\ Settle(Begun("ContainerRunAndClean", "", config.Name),
                      IF r.err # Nil THEN Returned(r.w, r.err)
                      ELSE Paused(r.w, "wait", r.id))

\* EnsureNetwork and EnsureImage called on their own
EnsureNetworkAct ==
    /\ Idle
    /\ \E f \in Injected(LAMBDA g : EnsureNetwork(World(daemon, g), NetworkName)) :
        \E r \in {EnsureNetwork(World(daemon, f), NetworkName)} :
            /\ FaultsMet(r.w) /\ WithinIds(r.w)
            /\ daemon' = DaemonOf(r.w)
            /\ last' = [NoLast EXCEPT !.op = "EnsureNetwork", !.name = NetworkName,
                           !.err = r.err, !.chain = r.created, !.log = r.w.log,
                           !.pre = daemon.cs, !.preNets = daemon.nets]
            /\ hist' = NoHist
            /\ UNCHANGED <<vs, dk, ident, ex, inv, call>>

RemoveNetworkAct ==
    /\ Idle
    /\ \E f \in Injected(LAMBDA g : RemoveNetwork(World(daemon, g), NetworkName)) :
        \E r \in {RemoveNetwork(World(daemon, f), NetworkName)} :
            /\ FaultsMet(r.w)
            /\ daemon' = DaemonOf(r.w)
            /\ last' = [NoLast EXCEPT !.op = "RemoveNetwork", !.name = NetworkName,
                           !.err = r.err, !.chain = r.removed, !.log = r.w.log,
                           !.pre = daemon.cs, !.preNets = daemon.nets]
            /\ hist' = NoHist
            /\ UNCHANGED <<vs, dk, ident, ex, inv, call>>

EnsureImageAct ==
    /\ Idle
    /\ \E config \in Configs :
        \E f \in Injected(LAMBDA g : EnsureImage(World(daemon, g), config.Image)) :
        \E r \in {EnsureImage(World(daemon, f), config.Image)} :
            /\ FaultsMet(r.w)
            /\ daemon' = DaemonOf(r.w)
            /\ last' = [NoLast EXCEPT !.op = "EnsureImage", !.name = config.Image,
                           !.err = r.err, !.log = r.w.log, !.pre = daemon.cs]
            /\ hist' = NoHist
            /\ UNCHANGED <<vs, dk, ident, ex, inv, call>>

StartWordPressAct ==
    /\ Idle
    /\ \E s \in Sites :
        \E f \in Injected(LAMBDA g : StartWordPress(World(daemon, g), s)) :
        \E r \in {StartWordPress(World(daemon, f), s)} :
            /\ FaultsMet(r.w) /\ WithinSiteIds(r.w)
            /\ daemon' = DaemonOf(r.w)
            /\ last' = [NoLast EXCEPT !.op = "StartWordPress", !.site = s,
                           !.err = r.err, !.log = r.w.log, !.pre = daemon.cs,
                           !.chain = (SiteContainers(daemon.cs, s) = {})]
            /\ hist' = NoHist
            /\ UNCHANGED <<vs, dk, ident, ex, inv, call>>

StopWordPressAct ==
    /\ Idle
    /\ \E s \in Sites :
        \E f \in Injected(LAMBDA g : StopWordPress(World(daemon, g), s)) :
        \E r \in {StopWordPress(World(daemon, f), s)} :
            /\ FaultsMet(r.w)
            /\ daemon' = DaemonOf(r.w)
            /\ last' = [NoLast EXCEPT !.op = "StopWordPress", !.site = s,
                           !.err = r.err, !.log = r.w.log, !.pre = daemon.cs,
                           !.chain = (/\ hist.op = "StartWordPress" /\ hist.site = s
                                      /\ hist.fresh)]
            /\ hist' = NoHist
            /\ UNCHANGED <<vs, dk, ident, ex, inv, call>>

\* InstallWordPress up to the wait for its command
InstallWordPressAct ==
    /\ Idle
    /\ \E s \in Sites :
        \E f \in Injected(LAMBDA g : RunWPCliStart(World(daemon, g), s, SetupCommand(s))) :
        \E r \in {RunWPCliStart(World(daemon, f), s, SetupCommand(s))} :
            /\ FaultsMet(r.w) /\ WithinIds(r.w)
            /\ Settle(Begun("InstallWordPress", s, <<>>),
                      IF r.err # Nil THEN Returned(r.w, r.err)
                      ELSE Paused(r.w, "wait", r.id))

\* InstallDefaultPlugins up to the wait for its first command
InstallDefaultPluginsAct ==
    /\ Idle
    /\ \E s \in Sites :
        \E f \in Injected(LAMBDA g : InstallDefaultPlugins(World(daemon, g), s)) :
        \E p \in {InstallDefaultPlugins(World(daemon, f), s)} :
            /\ FaultsMet(p.w) /\ WithinIds(p.w)
            /\ Settle(Begun("InstallDefaultPlugins", s, <<>>), p)

\* GetInstalledWordPressPlugins up to the wait for its command
GetInstalledWordPressPluginsAct ==
    /\ Idle
    /\ \E s \in Sites :
        \E f \in Injected(LAMBDA g : RunWPCliStart(World(daemon, g), s, PluginListCommand)) :
        \E r \in {RunWPCliStart(World(daemon, f), s, PluginListCommand)} :
            /\ FaultsMet(r.w) /\ WithinIds(r.w)
            /\ Settle(Begun("GetInstalledWordPressPlugins", s, <<>>),
                      IF r.err # Nil THEN Returned(r.w, r.err)
                      ELSE Paused(r.w, "wait", r.id))

\* the call under way from the answer of its wait on: the operation that
\* called ContainerRunAndClean takes what it returns
Waited(c, w, code) ==
    CASE c.op = "ContainerRunAndClean" ->
           Bind(ContainerRunAndCleanFinish(w, c.id, code), LAMBDA r :
             [Returned(r.w, r.err) EXCEPT !.code = r.statusCode, !.body = r.body,
                                          !.exit = code])
      [] c.op = "InstallWordPress" ->
           Bind(InstallWordPressFinish(w, c.id, code), LAMBDA r :
             [Returned(r.w, r.err) EXCEPT !.exit = code])
      [] c.op = "GetInstalledWordPressPlugins" ->
           Bind(GetInstalledWordPressPluginsFinish(w, c.site, c.id, code), LAMBDA r :
             [Returned(r.w, r.err) EXCEPT !.plugins = r.plugins, !.body = w.out,
                                          !.exit = code])
      [] c.op = "InstallDefaultPlugins" ->
           Bind(InstallPluginsFinish(w, c.site, c.id, code, c.i, c.ran), LAMBDA r :
             [r EXCEPT !.exit = IF c.i = 1 THEN code ELSE c.exit])

\* what the one-shot container of the call under way may have written
Outputs(c) ==
    IF c.op = "GetInstalledWordPressPlugins" THEN PluginListings ELSE {LogText}

\* the select of ContainerWait goes on (lines 157-162): the daemon has
\* answered the wait, the command having exited with code and written text
ContainerWaitAct ==
    /\ call.pc = "wait"
    /\ \E code \in ExitCodes, text \in Outputs(call) :
       \E f \in InjectedAfter(LAMBDA g : Waited(call, [Resumed(g) EXCEPT !.out = text],
                                                code),
                              call.log) :
        /\ WaitAnswered(Resumed(f), call.id)
        /\ \E p \in {Waited(call, [Resumed(f) EXCEPT !.out = text], code)} :
            /\ FaultsMet(p.w) /\ WithinIds(p.w)
            /\ Settle(call, p)

IsSiteRunningAct ==
    /\ Idle
    /\ \E s \in Sites :
        \E f \in Injected(LAMBDA g : IsSiteRunning(World(daemon, g), s)) :
        \E r \in {IsSiteRunning(World(daemon, f), s)} :
            /\ FaultsMet(r.w)
            /\ daemon' = DaemonOf(r.w)
            /\ last' = [NoLast EXCEPT !.op = "IsSiteRunning", !.site = s,
                           !.chain = r.running, !.log = r.w.log, !.pre = daemon.cs]
            /\ hist' = NoHist
            /\ UNCHANGED <<vs, dk, ident, ex, inv, call>>

\* the names handed to ContainerExec and ContainerRestart: the app container of
\* the started site and that of a site never started
ExecNames == {WordPressName(s) : s \in Sites}

\* the call under way takes what its ContainerExec returned
ExecReturned(c, o) ==
    IF c.op = "InstallXdebug" THEN XdebugReturned(c.site, c.i, o)
    ELSE [Returned(o.w, o.err) EXCEPT !.result = o.result]

\* ContainerExec up to the return of its listing; answers is what the
\* command will write and exit with
ContainerExecAct ==
    /\ Idle
    /\ \E name \in ExecNames, i \in {1, 2}, answers \in XdebugAnswers :
        \E f \in Injected(LAMBDA g : ContainerExecBegin(World(daemon, g), name)) :
        \E b \in {ContainerExecBegin(World(daemon, f), name)} :
            /\ FaultsMet(b.w)
            /\ Settle([Begun("ContainerExec", "", name) EXCEPT
                          !.i = i, !.answers = answers],
                      IF b.returned THEN Returned(b.w, Nil)
                      ELSE [Paused(b.w, "listed", b.id) EXCEPT !.i = i])

\* the call under way from its listing on: the exec session is created and
\* attached to, and the call waits for the end of its stream
ExecAttached(c, w) ==
    Bind(ContainerExecAttach(w, c.id, <<XdebugCommands[c.i]>>), LAMBDA a :
      IF a.err # Nil
      THEN ExecReturned(c, [w |-> a.w, result |-> NoExecResult, err |-> a.err])
      ELSE [Paused(a.w, "attached", c.id) EXCEPT !.execID = a.execID, !.i = c.i])

\* the call under way from the end of the stream on
ExecCopied(c, w) ==
    ExecReturned(c, ContainerExecFinish(w, c.execID, c.answers[c.i]))

\* the exec session of the call under way is created and attached to
ContainerExecAttachAct ==
    /\ call.pc = "listed"
    /\ \E f \in InjectedAfter(LAMBDA g : ExecAttached(call, Resumed(g)), call.log) :
        \E p \in {ExecAttached(call, Resumed(f))} :
            /\ FaultsMet(p.w)
            /\ Settle(call, p)

\* the daemon's side: the command of the exec session ends, and so its stream
ExecCommandEnds ==
    /\ call.pc = "attached"
    /\ call' = [call EXCEPT !.pc = "ended"]
    /\ UNCHANGED <<daemon, last, hist, vs, dk, ident, ex, inv>>

\* the select of ContainerExec goes on (lines 299-308): the copy has sent
\* its result, the stream having ended
ContainerExecCopyAct ==
    /\ call.pc = "ended"
    /\ \E f \in InjectedAfter(LAMBDA g : ExecCopied(call, Resumed(g)), call.log) :
        \E p \in {ExecCopied(call, Resumed(f))} :
            /\ FaultsMet(p.w)
            /\ Settle(call, p)

ContainerRestartAct ==
    /\ Idle
    /\ \E name \in ExecNames :
        \E f \in Injected(LAMBDA g : ContainerRestart(World(daemon, g), name)) :
        \E r \in {ContainerRestart(World(daemon, f), name)} :
            /\ FaultsMet(r.w)
            /\ daemon' = DaemonOf(r.w)
            /\ last' = [NoLast EXCEPT !.op = "ContainerRestart", !.name = name,
                           !.err = r.err, !.chain = r.ok, !.log = r.w.log,
                           !.pre = daemon.cs]
            /\ hist' = NoHist
            /\ UNCHANGED <<vs, dk, ident, ex, inv, call>>

\* InstallXdebug up to the return of the first listing that finds the app
\* container running
InstallXdebugAct ==
    /\ Idle
    /\ \E s \in Sites, answers \in XdebugAnswers :
        \E f \in Injected(LAMBDA g : InstallXdebug(World(daemon, g), s)) :
        \E p \in {InstallXdebug(World(daemon, f), s)} :
            /\ FaultsMet(p.w)
            /\ Settle([Begun("InstallXdebug", s, WordPressName(s)) EXCEPT
                          !.answers = answers], p)

\* the operation returns to its caller: the next one sees what it completed
Return ==
    /\ last.op # "none"
    /\ last' = NoLast
    /\ hist' = IF last.err = Nil /\ last.op \in {"ContainerRun", "StartWordPress"}
               THEN [op |-> last.op, site |-> last.site, name |-> last.name,
                     id |-> last.id, fresh |-> last.chain]
               ELSE NoHist
    /\ UNCHANGED <<daemon, vs, dk, ident, ex, inv, call>>

\* the daemon's side: a running container's process ends
ContainerExits ==
    /\ last.op = "none"
    /\ \E c \in daemon.cs :
        /\ c.status = "running"
        /\ daemon' = [daemon EXCEPT
                         !.cs = {IF x.id = c.id THEN [x EXCEPT !.status = "exited"] ELSE x
                                 : x \in @}]
    /\ hist' = NoHist
    /\ UNCHANGED <<last, vs, dk, ident, ex, inv, call>>

\* the adapter's operations, called directly
Next ==
    \/ ContainerRunAct
    \/ ContainerStopAct
    \/ ContainerRunAndCleanAct
    \/ ContainerWaitAct
    \/ EnsureNetworkAct
    \/ RemoveNetworkAct
    \/ EnsureImageAct
    \/ Return
    \/ ContainerExits

Spec == Init /\ [][Next]_vars

\* a host on which the tool has run before: the shared network exists, the
\* images are pulled and the shared proxy is running
InitSite ==
    /\ daemon = [cs |-> {[id |-> 2, name |-> DaemonName(TraefikConfig.Name),
                          status |-> "running", labels |-> TraefikConfig.Labels,
                          net |-> TraefikConfig.NetworkName]},
                 nets |-> {[id |-> 1, name |-> NetworkName]},
                 imgs |-> {DatabaseImage, TraefikImage}
                          \cup {WordPressImage(s) : s \in Sites}
                          \cup {CliImage(s) : s \in Sites},
                 nid |-> 3]
    /\ last = NoLast
    /\ hist = NoHist
    /\ vs = VsInit
    /\ dk = DkInit
    /\ ident = NoSite
    /\ ex = ExInit
    /\ inv = InvInit
    /\ call = NoCall

\* starting and stopping sites
NextSite ==
    \/ StartWordPressAct
    \/ StopWordPressAct
    \/ Return
    \/ ContainerExits

SpecSite == InitSite /\ [][NextSite]_vars

\* starting sites and running wp-cli on a host that has neither the shared
\* network nor any image yet
NextOrder ==
    \/ daemon.nid <= MaxOrderIds /\ StartWordPressAct
    \/ daemon.nid <= MaxOrderIds /\ InstallWordPressAct
    \/ ContainerWaitAct
    \/ call.pc = "wait" /\ ContainerExits
    \/ Return

SpecOrder == Init /\ [][NextOrder]_vars

\* the one-shot wp-cli operations
NextCli ==
    \/ InstallWordPressAct
    \/ InstallDefaultPluginsAct
    \/ GetInstalledWordPressPluginsAct
    \/ ContainerWaitAct
    \/ Return
    \/ ContainerExits

SpecCli == Init /\ [][NextCli]_vars

\* a host on which site "a" is started, or on which a container that is not
\* the tool's (no kana.site label) holds the name of site "a"'s app container
InitExec ==
    /\ \E cs \in { {[id |-> 2, name |-> DaemonName(DatabaseName("a")),
                       status |-> "running", labels |-> DatabaseConfig("a").Labels,
                       net |-> NetworkName],
                      [id |-> 3, name |-> DaemonName(WordPressName("a")),
                       status |-> "running", labels |-> WordPressConfig("a").Labels,
                       net |-> NetworkName]},
                     {[id |-> 2, name |-> DaemonName(WordPressName("a")),
                       status |-> "running", labels |-> {}, net |-> <<>>]} } :
         daemon = [cs |-> cs,
                   nets |-> {[id |-> 1, name |-> NetworkName]},
                   imgs |-> {DatabaseImage} \cup {WordPressImage(s) : s \in Sites},
                   nid |-> 4]
    /\ last = NoLast
    /\ hist = NoHist
    /\ vs = VsInit
    /\ dk = DkInit
    /\ ident = NoSite
    /\ ex = ExInit
    /\ inv = InvInit
    /\ call = NoCall

\* commands in the app container
NextExec ==
    \/ ContainerExecAct
    \/ ContainerExecAttachAct
    \/ ExecCommandEnds
    \/ ContainerExecCopyAct
    \/ ContainerRestartAct
    \/ InstallXdebugAct
    \/ ContainerStopAct
    \/ IsSiteRunningAct
    \/ Return
    \/ ContainerExits

SpecExec == InitExec /\ [][NextExec]_vars

NewController ==
    /\ dk.pc = "idle"
    /\ \E goos \in Platforms, ok \in BOOLEAN : dk' = NewClient(dk, goos, ok)
    /\ UNCHANGED <<daemon, last, hist, vs, ident, ex, inv, call>>

EnsureDockerProbe ==
    /\ dk.pc = "probe"
    /\ \E r \in ProbeResults : dk' = DockerProbe(dk, r)
    /\ UNCHANGED <<daemon, last, hist, vs, ident, ex, inv, call>>

EnsureDockerLaunch ==
    /\ dk.pc = "launch"
    /\ \E ok \in BOOLEAN : dk' = DockerLaunch(dk, ok)
    /\ UNCHANGED <<daemon, last, hist, vs, ident, ex, inv, call>>

EnsureDockerLoopHead ==
    /\ dk.pc = "head"
    /\ dk' = DockerLoopHead(dk)
    /\ UNCHANGED <<daemon, last, hist, vs, ident, ex, inv, call>>

EnsureDockerLoopBound ==
    /\ dk.pc = "bound"
    /\ dk' = DockerLoopBound(dk)
    /\ UNCHANGED <<daemon, last, hist, vs, ident, ex, inv, call>>

EnsureDockerSleep ==
    /\ dk.pc = "sleep"
    /\ dk' = DockerSleep(dk)
    /\ UNCHANGED <<daemon, last, hist, vs, ident, ex, inv, call>>

EnsureDockerReprobe ==
    /\ dk.pc = "reprobe"
    /\ \E r \in ProbeResults : dk' = DockerReprobe(dk, r)
    /\ UNCHANGED <<daemon, last, hist, vs, ident, ex, inv, call>>

NextDocker ==
    \/ NewController
    \/ EnsureDockerProbe
    \/ EnsureDockerLaunch
    \/ EnsureDockerLoopHead
    \/ EnsureDockerLoopBound
    \/ EnsureDockerSleep
    \/ EnsureDockerReprobe

\* every step of the call is taken when it can be: the probe answers or times
\* out, the sleep ends
SpecDocker == Init /\ [][NextDocker]_vars /\ WF_vars(NextDocker)

NewSiteAct ==
    /\ ~ident.made
    /\ \E staticConfig \in StaticConfigs, got \in {"client", "options", "site"} :
         ident' = NewSite(staticConfig, got)
    /\ UNCHANGED <<daemon, last, hist, vs, dk, ex, inv, call>>

ProcessNameFlagAct ==
    /\ ident.made
    /\ \E cmd \in Commands, fs \in LinkReads :
         ident' = [ProcessNameFlag(ident, cmd, fs) EXCEPT !.use = cmd.Use]
    /\ UNCHANGED <<daemon, last, hist, vs, dk, ex, inv, call>>

\* the site object of one command invocation
NextIdentity ==
    \/ NewSiteAct
    \/ ProcessNameFlagAct

SpecIdentity == Init /\ [][NextIdentity]_vars

ExecBeginAct ==
    /\ ex.pc = "idle"
    /\ \E isRunning \in BOOLEAN, code \in ExitCodes :
         ex' = ExecBegin(ex, isRunning, code)
    /\ UNCHANGED <<daemon, last, hist, vs, dk, ident, inv, call>>

ExecCreateAct ==
    /\ ex.pc = "create"
    /\ \E ok \in BOOLEAN : ex' = ExecCreate(ex, ok)
    /\ UNCHANGED <<daemon, last, hist, vs, dk, ident, inv, call>>

ExecAttachAct ==
    /\ ex.pc = "attach"
    /\ \E ok \in BOOLEAN : ex' = ExecAttach(ex, ok)
    /\ UNCHANGED <<daemon, last, hist, vs, dk, ident, inv, call>>

ExecSpawnAct ==
    /\ ex.pc = "spawn"
    /\ ex' = ExecSpawn(ex)
    /\ UNCHANGED <<daemon, last, hist, vs, dk, ident, inv, call>>

StreamProduceAct ==
    /\ ex.stream = "open"
    /\ Len(ex.sent) < MaxFrames
    /\ \E frame \in Frames : ex' = StreamProduce(ex, frame)
    /\ UNCHANGED <<daemon, last, hist, vs, dk, ident, inv, call>>

StreamCloseAct ==
    /\ ex.stream = "open"
    /\ \E how \in {"ended", "broken"} : ex' = StreamClose(ex, how)
    /\ UNCHANGED <<daemon, last, hist, vs, dk, ident, inv, call>>

TaskCopyAct ==
    /\ ex.task = "copy"
    /\ ex.pending # <<>>
    /\ ex' = TaskCopy(ex)
    /\ UNCHANGED <<daemon, last, hist, vs, dk, ident, inv, call>>

TaskSendAct ==
    /\ ex.task = "copy"
    /\ StreamDrained(ex)
    /\ ex' = TaskSend(ex)
    /\ UNCHANGED <<daemon, last, hist, vs, dk, ident, inv, call>>

\* the select goes on when one of its receives is ready
ExecSelectAct ==
    /\ ex.pc = "select"
    /\ ex.task = "send" \/ BackgroundDone
    /\ ex' = ExecSelect(ex)
    /\ UNCHANGED <<daemon, last, hist, vs, dk, ident, inv, call>>

ExecInspectAct ==
    /\ ex.pc = "inspect"
    /\ \E ok \in BOOLEAN : ex' = ExecInspect(ex, ok)
    /\ UNCHANGED <<daemon, last, hist, vs, dk, ident, inv, call>>

\* one ContainerExec call, its background task and the exec stream
NextStream ==
    \/ ExecBeginAct
    \/ ExecCreateAct
    \/ ExecAttachAct
    \/ ExecSpawnAct
    \/ StreamProduceAct
    \/ StreamCloseAct
    \/ TaskCopyAct
    \/ TaskSendAct
    \/ ExecSelectAct
    \/ ExecInspectAct

SpecStream == Init /\ [][NextStream]_vars

\* both invocations are started for the same name
InvokeTwice ==
    /\ \A p \in Invocations : inv.procs[p].pc = "idle"
    /\ \E config \in RaceConfigs :
         inv' = [name |-> config.Name,
                 procs |-> [p \in Invocations |-> [inv.procs[p] EXCEPT !.pc = "list"]]]
    /\ UNCHANGED <<daemon, last, hist, vs, dk, ident, ex, call>>

RunListAct ==
    \E p \in Invocations, f \in Faults(1) :
        /\ inv.procs[p].pc = "list"
        /\ \E r \in {IsContainerRunning(World(daemon, f), inv.name)} :
             /\ daemon' = DaemonOf(r.w)
             /\ inv' = [inv EXCEPT !.procs[p] = RunListed(@, r)]
        /\ UNCHANGED <<last, hist, vs, dk, ident, ex, call>>

RunCreateAct ==
    \E p \in Invocations, f \in Faults(1) :
        /\ inv.procs[p].pc = "create"
        /\ \E c \in {ClientContainerCreate(World(daemon, f), RaceConfig(inv.name))} :
             /\ daemon' = DaemonOf(c.w)
             /\ inv' = [inv EXCEPT !.procs[p] = RunCreated(@, c)]
        /\ UNCHANGED <<last, hist, vs, dk, ident, ex, call>>

RunStartAct ==
    \E p \in Invocations, f \in Faults(1) :
        /\ inv.procs[p].pc = "start"
        /\ \E s \in {ClientContainerStart(World(daemon, f), inv.procs[p].id)} :
             /\ daemon' = DaemonOf(s.w)
             /\ inv' = [inv EXCEPT !.procs[p] = RunStarted(@, s)]
        /\ UNCHANGED <<last, hist, vs, dk, ident, ex, call>>

\* two invocations of ContainerRun for one name, their daemon calls interleaved,
\* while containers may exit
NextRace ==
    \/ InvokeTwice
    \/ RunListAct
    \/ RunCreateAct
    \/ RunStartAct
    \/ ContainerExits

SpecRace == InitSite /\ [][NextRace]_vars

VerifySiteStart ==
    /\ vs.pc = "idle"
    /\ \E ok \in BOOLEAN : vs' = VerifyReadCert(vs, ok)
    /\ UNCHANGED <<daemon, last, hist, dk, ident, ex, inv, call>>

VerifySiteFirstGet ==
    /\ vs.pc = "first"
    /\ \E r \in Responses : vs' = VerifyFirstGet(vs, r)
    /\ UNCHANGED <<daemon, last, hist, dk, ident, ex, inv, call>>

VerifySiteLoopHead ==
    /\ vs.pc = "head"
    /\ vs' = VerifyLoopHead(vs)
    /\ UNCHANGED <<daemon, last, hist, dk, ident, ex, inv, call>>

VerifySiteLoopBody ==
    /\ vs.pc = "body"
    /\ \E r \in Responses : vs' = VerifyLoopBody(vs, r)
    /\ UNCHANGED <<daemon, last, hist, dk, ident, ex, inv, call>>

NextVerify ==
    \/ VerifySiteStart
    \/ VerifySiteFirstGet
    \/ VerifySiteLoopHead
    \/ VerifySiteLoopBody

SpecVerify == Init /\ [][NextVerify]_vars

(* ------------------------------ claims -------------------------------- *)

\* the daemon calls the last operation issued
IssuedCalls == {last.log[i].c : i \in 1..Len(last.log)}

\* the steps of the last operation that failed
FailedCalls == {last.log[i].c : i \in {j \in 1..Len(last.log) : ~last.log[j].ok}}

\* the containers of a set that carry the name
Named(cs, name) == {c \in cs : Trim(c.name) = name}

RunningNamed(cs, name) == {c \in Named(cs, name) : c.status = "running"}

\* the containers of a set labelled kana.site=s
Labelled(cs, s) == {c \in cs : SiteLabel(s) \in c.labels}

\* the containers of a set carrying the kana.site label of any site
AnyLabelled(cs) == {c \in cs : \E p \in c.labels : p[1] = <<"kana.site">>}

MutatingCalls ==
    {"ContainerCreate", "ContainerStart", "ContainerStop", "ContainerRemove",
     "NetworkCreate", "ImagePull"}

\* C1: a ContainerRun that directly follows a successful ContainerRun of the
\* same name, the container still running, leaves exactly one container of
\* that name; when the daemon answers its listing it returns without error,
\* and whenever it returns without error it returns the identifier the first
\* call returned, has issued no create and no start, and has left the
\* daemon's containers as they were.
C1_RunTwiceSameContainer ==
    (last.op = "ContainerRun" /\ last.prevId # NoId) =>
        /\ Cardinality(Named(daemon.cs, last.name)) = 1
        /\ (last.log[1].ok => last.err = Nil)
        /\ (last.err = Nil =>
                /\ last.id = last.prevId
                /\ "ContainerCreate" \notin IssuedCalls
                /\ "ContainerStart" \notin IssuedCalls
                /\ daemon.cs = last.pre)

C1_Witness ==
    /\ last.op = "ContainerRun" /\ last.prevId # NoId
    /\ last.err = Nil /\ last.id = last.prevId
    /\ RunningNamed(daemon.cs, last.name) # {}

\* C2: ContainerStop of a name that no running container carries (stopped or
\* never started) returns success, issues no mutating daemon call and leaves
\* the daemon's containers unchanged.
C2_StopNotRunningNoMutation ==
    (last.op = "ContainerStop" /\ RunningNamed(last.pre, last.name) = {}) =>
        /\ last.err = Nil /\ last.chain
        /\ IssuedCalls \cap MutatingCalls = {}
        /\ daemon.cs = last.pre

C2_Witness ==
    /\ last.op = "ContainerStop"
    /\ RunningNamed(last.pre, last.name) = {}
    /\ \E c \in Named(last.pre, last.name) : c.status = "exited"
    /\ last.err = Nil

\* C3 as claimed: after ContainerRunAndClean returns, no container of the
\* name remains.
C3_RunAndCleanLeavesNone ==
    last.op = "ContainerRunAndClean" => Named(daemon.cs, last.name) = {}

\* C3 amended: after ContainerRunAndClean returns without error, no container
\* of the name remains and the status returned is the one the command exited
\* with, zero or not.
C3_RunAndCleanOkLeavesNone ==
    (last.op = "ContainerRunAndClean" /\ last.err = Nil) =>
        /\ Named(daemon.cs, last.name) = {}
        /\ last.code = last.exit

C3_Witness ==
    /\ last.op = "ContainerRunAndClean" /\ last.err = Nil
    /\ last.exit # 0 /\ last.code # 0
    /\ "ContainerCreate" \in IssuedCalls
    /\ Named(daemon.cs, last.name) = {}

\* C4: when the removal at the end of ContainerRunAndClean fails, the call
\* returns the exit status and the log text with no error.
C4_RemovalFailureOnlyLogged ==
    (/\ last.op = "ContainerRunAndClean"
     /\ FailedCalls = {"ContainerRemove"}) =>
        /\ last.err = Nil
        /\ last.code = last.exit
        /\ last.body = LogText

\* C5: a one-shot wp-cli command that ran and exited with a non-zero status
\* makes InstallWordPress return an error.
C5_NonZeroExitIsFatal ==
    (/\ last.op = "InstallWordPress"
     /\ "ContainerWait" \in IssuedCalls /\ "ContainerWait" \notin FailedCalls
     /\ last.exit # 0) =>
        last.err # Nil

\* C6 as claimed: against an endpoint that never answers 200 and never fails,
\* VerifySite ends in the timeout outcome after exactly 30 GETs.
C6_TimeoutAfterThirtyGets ==
    (vs.pc = "done" /\ vs.never200 /\ vs.gets > 0) =>
        (vs.outcome = "timeout" /\ vs.gets = MaxTries)

\* C6 amended: against such an endpoint VerifySite ends in the timeout outcome
\* after exactly 32 GETs (one before the loop and 31 in it) and 30 sleeps.
C6_TimeoutAfterBudgetPlusTwoGets ==
    (vs.pc = "done" /\ vs.never200 /\ vs.gets > 0) =>
        (vs.outcome = "timeout" /\ vs.gets = MaxTries + 2 /\ vs.sleeps = MaxTries)

C6_Witness ==
    vs.pc = "done" /\ vs.never200 /\ vs.gets > 0 /\ vs.outcome = "timeout"

\* C7: once a GET of VerifySite has met a transport error, the poll is over
\* with the error outcome (neither succeeded nor timeout) and no GET follows
\* the failed one.
C7_TransportErrorEndsPolling ==
    vs.errAt # 0 =>
        (vs.pc = "done" /\ vs.outcome = "error" /\ vs.gets = vs.errAt)

C7_Witness ==
    vs.errAt > 1 /\ vs.pc = "done" /\ vs.outcome = "error" /\ vs.tries > 0

\* C8: a successful StartWordPress on a daemon with no container of the site
\* leaves exactly the database and the app container, both running and
\* labelled kana.site=<site>; after a successful StopWordPress that directly
\* follows it, no container labelled for the site is left to list.
C8_StartThenStopLeavesNothing ==
    /\ (last.op = "StartWordPress" /\ last.err = Nil /\ last.chain) =>
          /\ {Trim(c.name) : c \in Labelled(daemon.cs, last.site)}
                = {DatabaseName(last.site), WordPressName(last.site)}
          /\ Cardinality(Labelled(daemon.cs, last.site)) = 2
          /\ \A c \in Labelled(daemon.cs, last.site) : c.status = "running"
    /\ (last.op = "StopWordPress" /\ last.err = Nil /\ last.chain) =>
          Labelled(daemon.cs, last.site) = {}

\* C9: a StopWordPress that leaves a site-labelled container behind leaves a
\* running proxy running, and a successful StopWordPress of a started site
\* that leaves no site-labelled container behind leaves no proxy running.
C9_ProxyStopsWithLastSite ==
    last.op = "StopWordPress" =>
        /\ (AnyLabelled(daemon.cs) # {} /\ RunningNamed(last.pre, TraefikName) # {}) =>
              RunningNamed(daemon.cs, TraefikName) # {}
        /\ (/\ last.err = Nil
            /\ AnyLabelled(daemon.cs) = {}
            /\ Cardinality(Labelled(last.pre, last.site)) = 2
            /\ \A c \in Labelled(last.pre, last.site) : c.status = "running") =>
              RunningNamed(daemon.cs, TraefikName) = {}

\* C10: ContainerStop, ContainerRun and EnsureNetwork return an error whenever
\* a daemon call made on their behalf fails, the listing that resolves the
\* name included; ContainerRunAndClean returns an error whenever a daemon call
\* other than the final removal fails, the log fetch included.
C10_EveryDaemonFailureReported ==
    /\ (last.op \in {"ContainerStop", "ContainerRun", "EnsureNetwork"}
            /\ FailedCalls # {}) => last.err # Nil
    /\ (last.op = "ContainerRunAndClean"
            /\ FailedCalls \ {"ContainerRemove"} # {}) => last.err # Nil

\* the positions of the last operation's log at which the daemon was asked to
\* stop or to start a container
RestartSteps ==
    {j \in 1..Len(last.log) : last.log[j].c \in {"ContainerStop", "ContainerStart"}}

\* the steps of the last operation that succeeded, by call
DoneSteps(step) ==
    {j \in 1..Len(last.log) : last.log[j].c = step /\ last.log[j].ok}

HasSiteLabel(c) == \E p \in c.labels : p[1] = <<"kana.site">>

\* C11: ContainerExec of a name that no running container carries returns the
\* empty result (no output, exit code 0) and no error, creates no exec session
\* and leaves the daemon's containers as they were.
C11_ExecNotRunningIsEmpty ==
    (last.op = "ContainerExec" /\ RunningNamed(last.pre, last.name) = {}) =>
        /\ last.err = Nil
        /\ last.result = NoExecResult
        /\ last.execs = <<>>
        /\ "ContainerExecCreate" \notin IssuedCalls
        /\ daemon.cs = last.pre

C11_Witness ==
    /\ last.op = "ContainerExec"
    /\ RunningNamed(last.pre, last.name) = {}
    /\ \E c \in Named(last.pre, last.name) : c.status = "exited"
    /\ last.err = Nil /\ last.result = NoExecResult

\* C12: when the command of the first configured plugin has run and exited
\* with a non-zero status, InstallDefaultPlugins returns an error and has run
\* no command for a later plugin.
C12_PluginFailureAborts ==
    (/\ last.op = "InstallDefaultPlugins"
     /\ DoneSteps("ContainerWait") # {}
     /\ last.exit # 0) =>
        (last.err # Nil /\ last.ran = 1)

\* C13: InstallXdebug with the flag unset makes no call and returns
\* (false, nil).  With the flag set and the app container running, when it
\* returns without error it has either run the check command alone, the check
\* showing xdebug, with no restart and changed = false, or run all the fixed
\* commands in order, the check not showing xdebug, and then restarted the app
\* container exactly once, after the last command, with changed = true.
\* last.result is what the check command answers when it is executed.
C13_XdebugSequence ==
    last.op = "InstallXdebug" =>
        /\ ~SiteConfig(last.site).xdebug =>
              (last.log = <<>> /\ ~last.chain /\ last.err = Nil)
        /\ (/\ SiteConfig(last.site).xdebug
            /\ last.err = Nil
            /\ RunningNamed(last.pre, last.name) # {}) =>
              /\ \A i \in 1..Len(last.execs) :
                    last.execs[i].cmd = <<"sh", "-c", XdebugCommands[i]>>
              /\ IF Contains(last.result.StdOut, "xdebug")
                 THEN /\ Len(last.execs) = 1
                      /\ RestartSteps = {}
                      /\ ~last.chain
                 ELSE /\ Len(last.execs) = Len(XdebugCommands)
                      /\ Cardinality(DoneSteps("ContainerStop")) = 1
                      /\ Cardinality(DoneSteps("ContainerStart")) = 1
                      /\ \A j \in RestartSteps :
                            j > last.execs[Len(XdebugCommands)].at + 3
                      /\ last.chain

\* C15: a container that ContainerStop or ContainerRestart stops carries the
\* kana.site label.
C15_CleanupOnlyLabelled ==
    (/\ last.op \in {"ContainerStop", "ContainerRestart"}
     /\ DoneSteps("ContainerStop") # {}) =>
        \A c \in RunningNamed(last.pre, last.name) : HasSiteLabel(c)

\* what ensureDockerIsAvailable has done is within its bounds: nothing when
\* NewController had no client to call it on; at most
\* MaxRetries - 1 re-probes, each after one sleep; on a platform that cannot
\* launch the daemon one probe, whose answer is returned; success exactly at the
\* first probe that succeeds; the unable-to-start error once MaxRetries - 1
\* re-probes have failed
DockerBounded ==
    /\ dk.probes <= MaxRetries
    /\ dk.sleeps <= MaxRetries - 1
    /\ dk.sleeps \in {dk.probes - 1, dk.probes}
    /\ ~dk.client => dk.probes = 0
    /\ (dk.pc = "done" /\ dk.client /\ dk.goos # "darwin") =>
          (dk.probes = 1 /\ dk.sleeps = 0 /\ ~dk.launched /\ dk.err # UnableToStart)
    /\ (dk.pc # "done" /\ dk.probes > 0) => dk.okAt = 0
    /\ (dk.pc = "done" /\ dk.okAt # 0) =>
          (dk.err = Nil /\ dk.probes = dk.okAt /\ dk.sleeps = dk.probes - 1)
    /\ (dk.pc = "done" /\ dk.okAt = 0) => dk.err # Nil
    /\ (dk.pc = "done" /\ dk.okAt = 0 /\ dk.probes > 1) =>
          (dk.err = UnableToStart /\ dk.probes = MaxRetries)

\* C14: ensureDockerIsAvailable always returns, and on the way stays within
\* the bounds of DockerBounded.
C14_EnsureDockerTerminates == []DockerBounded /\ <>(dk.pc = "done")

C14_Witness ==
    /\ dk.pc = "done" /\ dk.goos = "darwin" /\ dk.launched
    /\ dk.okAt = 0 /\ dk.err = UnableToStart /\ dk.probes = MaxRetries

\* C16: once a Site is constructed, and after every ProcessNameFlag, its
\* domain is <SiteName>.<AppDomain>, its secure URL https://<domain>/, its
\* insecure URL http://<domain>/, its directory <AppDirectory>/sites/<SiteName>;
\* GetURL(true) is the insecure URL and GetURL(false) the secure one.
C16_IdentityAgrees ==
    ident.made =>
        LET name == ident.StaticConfig.SiteName
            domain == name \o <<".", ident.StaticConfig.AppDomain>>
        IN  /\ ident.siteDomain = domain
            /\ ident.secureURL = <<"https://">> \o domain \o <<"/">>
            /\ ident.url = <<"http://">> \o domain \o <<"/">>
            /\ ident.StaticConfig.SiteDirectory
                  = ident.StaticConfig.AppDirectory \o <<<<"sites">>, name>>
            /\ GetURL(ident, TRUE) = <<"http://">> \o domain \o <<"/">>
            /\ GetURL(ident, FALSE) = <<"https://">> \o domain \o <<"/">>

C16_Witness ==
    /\ ident.made /\ ident.use = "stop"
    /\ ident.StaticConfig.SiteName = <<"my", "-", "site">>
    /\ ident.url = <<"http://", "my", "-", "site", ".", "kana.test", "/">>

\* the names the listing text stands for after filtering: those of the entries
\* that are no dropin and are named neither like the site nor hello nor akismet
ListedPlugins(s, text) ==
    LET kept == SelectSeq(Unmarshal(text).rawPlugins, LAMBDA p :
                    p.Status # "dropin" /\ p.Name \notin {s, "hello", "akismet"})
    IN  [i \in 1..Len(kept) |-> kept[i].Name]

\* C17: get_installed_plugins returns exactly the names of the entries that are
\* no dropin and are named neither like the site nor hello nor akismet, in the
\* order of the raw list; when the listing command's run returns an error or
\* the text cannot be parsed, it returns an error and an empty list.
C17_PluginListFiltered ==
    last.op = "GetInstalledWordPressPlugins" =>
        IF \/ FailedCalls \ {"ContainerList"} # {}
           \/ Unmarshal(last.body).err # Nil
        THEN last.err # Nil /\ last.plugins = <<>>
        ELSE last.err = Nil /\ last.plugins = ListedPlugins(last.site, last.body)

C17_Witness ==
    /\ last.op = "GetInstalledWordPressPlugins" /\ last.err = Nil
    /\ Len(Unmarshal(last.body).rawPlugins) = 4
    /\ last.plugins = <<"zeta", "alpha">>

\* the networks of a set that carry the name
NetworksNamed(nets, name) == {n \in nets : n.name = name}

\* C18: EnsureNetwork(name) creates the network only if none of that name
\* exists: answered on an absent network it has created it and returns
\* created = true, on a present one it returns created = false and creates
\* nothing; after any calls made one after another there is never more than one
\* network of the name, and exactly one after a call that returned no error.
C18_EnsureNetworkIdempotent ==
    /\ Cardinality(NetworksNamed(daemon.nets, NetworkName)) <= 1
    /\ (last.op = "EnsureNetwork" /\ last.err = Nil) =>
          /\ Cardinality(NetworksNamed(daemon.nets, last.name)) = 1
          /\ last.chain = (NetworksNamed(last.preNets, last.name) = {})
          /\ NetworksNamed(last.preNets, last.name) # {} =>
                /\ "NetworkCreate" \notin IssuedCalls
                /\ daemon.nets = last.preNets

C18_Witness ==
    /\ last.op = "EnsureNetwork" /\ last.err = Nil
    /\ NetworksNamed(last.preNets, last.name) # {}
    /\ ~last.chain

\* the positions of the last operation's steps that are the call
StepsOf(step) == {i \in 1..Len(last.log) : last.log[i].c = step}

\* the steps by which a container stop returns an error
FailedStops ==
    {i \in 1..Len(last.log) :
        last.log[i].c \in {"ContainerStop", "ContainerRemove"} /\ ~last.log[i].ok}

\* C19: stop() attempts the site's containers one after another; the first
\* container stop that returns an error ends the operation with that error, no
\* further stop is attempted and the shared proxy is not looked at; the proxy
\* manager is built only after the stop of every site container has returned
\* success.
C19_StopOrder ==
    last.op = "StopWordPress" =>
        IF StepsOf("NewTraefik") = {}
        THEN /\ last.err # Nil
             /\ FailedStops = {Len(last.log)}
             /\ Cardinality(StepsOf("ContainerList")) <= Len(GetSiteContainers(last.site))
        ELSE \A k \in StepsOf("NewTraefik") :
                /\ \A i \in FailedStops : i > k
                /\ Cardinality({i \in StepsOf("ContainerList") : i < k})
                      = Len(GetSiteContainers(last.site))

C19_Witness ==
    /\ last.op = "StopWordPress" /\ last.err # Nil
    /\ StepsOf("NewTraefik") = {}
    /\ Cardinality(StepsOf("ContainerList")) = 1
    /\ FailedStops # {}

\* the steps by which the network ensure or an image ensure fails
FailedEnsures ==
    {i \in 1..Len(last.log) :
        /\ last.log[i].c \in {"NetworkList", "NetworkCreate", "ImageList", "ImagePull"}
        /\ ~last.log[i].ok}

\* the position of the container creation before step k, 0 when there is none
CreateBefore(k) ==
    IF \E i \in StepsOf("ContainerCreate") : i < k
    THEN CHOOSE i \in StepsOf("ContainerCreate") :
            i < k /\ \A j \in StepsOf("ContainerCreate") : j < k => j <= i
    ELSE 0

\* C20: in start() and in a one-shot CLI run the shared network is ensured
\* before any container is created, and each container's image is ensured,
\* with success, before that container is created: the daemon never misses the
\* network or the image of a container; when the network ensure or an image
\* ensure fails, the operation returns an error and makes no further step, so
\* no container is created from then on.
C20_EnsureBeforeCreate ==
    last.op \in {"StartWordPress", "InstallWordPress"} =>
        /\ last.err \notin {"no such image", "network not found"}
        /\ \A k \in StepsOf("ContainerCreate") :
              /\ \E i \in StepsOf("NetworkList") : i < k /\ last.log[i].ok
              /\ \E i \in StepsOf("ImageList") :
                    CreateBefore(k) < i /\ i < k /\ last.log[i].ok
              /\ \A i \in FailedEnsures : i > k
        /\ \A c \in daemon.cs :
              c.net # <<>> => NetworksNamed(daemon.nets, c.net) # {}
        /\ \A i \in FailedEnsures : i = Len(last.log) /\ last.err # Nil

C20_Witness ==
    /\ last.op = "StartWordPress" /\ last.err = Nil /\ last.pre = {}
    /\ Cardinality(StepsOf("ContainerCreate")) = 2
    /\ Cardinality(StepsOf("ImagePull")) = 2
    /\ StepsOf("NetworkCreate") # {}

\* the payloads of the frames of a descriptor, in order
Payloads(frames, fd) ==
    LET of == SelectSeq(frames, LAMBDA f : f.fd = fd)
    IN  [i \in 1..Len(of) |-> of[i].data]

\* the background task of the exec call has been started
Spawned == ex.task # "none"

\* what holds of an exec call at any time
StreamCopyInv ==
    /\ ex.pc = "inspect" => ex.task = "done" /\ ex.pending = <<>> /\ ex.stream # "open"
    /\ ex.pc = "returned" => ex.task \in {"none", "done"}
    /\ (ex.pc = "returned" /\ Spawned) => ex.pending = <<>> /\ ex.stream # "open"
    /\ (ex.pc = "returned" /\ Spawned /\ ex.err = Nil) =>
          /\ ex.result.ExitCode = ex.code
          /\ ex.result.StdOut = Payloads(ex.sent, "stdout")
          /\ ex.result.StdErr = Payloads(ex.sent, "stderr")
    /\ ex.task = "send" => ex.pc = "select"

\* the caller leaves its wait only by taking the task's completion signal
StreamCopyWait ==
    (ex.pc = "select" /\ ex'.pc # "select") =>
        ex.task = "send" /\ ex'.task = "done" /\ ex.stream # "open"

\* C21: ContainerExec on a running container goes on from its wait only by
\* receiving the background copy's completion signal: the exit code is
\* inspected and the output returned only after the copy has finished, the
\* background task is never left blocked on its send once the call has
\* returned, and while the exec stream has not ended the call does not return.
C21_ExecWaitsForCopy == []StreamCopyInv /\ [][StreamCopyWait]_vars

C21_Witness ==
    /\ ex.pc = "returned" /\ ex.err = Nil /\ ex.task = "done"
    /\ ex.result.StdOut # <<>> /\ ex.result.StdErr # <<>>

\* C22: the one-shot CLI container's image is the command-line variant for the
\* PHP version of the app container's image (wordpress:php<V> and
\* wordpress:cli-php<V> with the same V), the image a CLI run has ensured is
\* that one, and the CLI spec carries the app spec's database environment.
C22_CliImageMatchesApp ==
    last.op = "InstallWordPress" =>
        LET cli == CliConfig(last.site, SetupCommand(last.site))
            app == WordPressConfig(last.site)
        IN  /\ app.Image[1] = "wordpress:php"
            /\ cli.Image = <<"wordpress:cli-php", app.Image[2]>>
            /\ cli.Env = app.Env
            /\ last.err = Nil => <<"wordpress:cli-php", app.Image[2]>> \in daemon.imgs

\* C23: IsSiteRunning(site) answers true if and only if at least one container
\* labelled kana.site=<site> is running in the daemon; a site whose labelled
\* containers have all exited or were never started is answered as not running.
C23_SiteRunningIffLabelledRunning ==
    last.op = "IsSiteRunning" =>
        last.chain = (\E c \in daemon.cs :
                         SiteLabel(last.site) \in c.labels /\ c.status = "running")

\* C24: after any run and stop operations, container exits and daemon-call
\* failures, whenever ContainerStop(name) returns success no container named
\* name exists in the daemon in any state, so that a following ContainerRun of
\* the name meets no name conflict.
C24_StopLeavesNoContainer ==
    (last.op = "ContainerStop" /\ last.err = Nil /\ last.chain) =>
        Named(daemon.cs, last.name) = {}

\* the invocations that have returned success
Succeeded == {p \in Invocations : inv.procs[p].pc = "done" /\ inv.procs[p].err = Nil}

\* C25: when two invocations run ContainerRun for one name at once, under every
\* interleaving of their daemon calls the daemon holds at most one container of
\* the name, at most one invocation's creation is accepted, an invocation
\* returns success only with the identifier of that one container, and the
\* invocation whose creation the daemon refuses returns an error.
C25_RaceLeavesOneContainer ==
    /\ Cardinality(Named(daemon.cs, inv.name)) <= 1
    /\ Cardinality({p \in Invocations : inv.procs[p].made}) <= 1
    /\ \A p \in Succeeded :
          \E c \in Named(daemon.cs, inv.name) : c.id = inv.procs[p].id
    /\ \A p \in Invocations :
          (inv.procs[p].pc = "done" /\ ~inv.procs[p].made /\ inv.procs[p].err = Nil) =>
              \E q \in Invocations \ {p} : inv.procs[q].made

C25_Witness ==
    /\ \A p \in Invocations : inv.procs[p].pc = "done"
    /\ \E p \in Invocations : inv.procs[p].err = "conflict"
    /\ \E p \in Succeeded : inv.procs[p].made
    /\ Cardinality(Named(daemon.cs, inv.name)) = 1

\* C26: install_xdebug reports changed = true only when the install and enable
\* commands were executed, each in an exec session of the running app
\* container; with the flag set and the app container not running it reports
\* no change.
C26_XdebugChangedOnlyIfExecuted ==
    last.op = "InstallXdebug" =>
        /\ last.chain =>
              /\ RunningNamed(last.pre, last.name) # {}
              /\ Len(last.execs) = Len(XdebugCommands)
              /\ \A i \in 1..Len(last.execs) :
                    /\ last.execs[i].cmd = <<"sh", "-c", XdebugCommands[i]>>
                    /\ last.execs[i].container
                          \in {c.id : c \in RunningNamed(last.pre, last.name)}
        /\ (SiteConfig(last.site).xdebug /\ RunningNamed(last.pre, last.name) = {}) =>
              ~last.chain

====
